---- MODULE Spec2Model ----
(***************************************************************************)
(* Verification model of the Dark Sun calendar (dsr-calendar): the         *)
(* DarkSunCalendar clock, the King's Age cycle offsets, the two            *)
(* MoonPhaseCalculators of the AthasianMoonSystem and the EclipseCalculator.*)
(*                                                                         *)
(* Conventions.  JavaScript null is modelled by the sentinels NoIndex (for *)
(* a month index or a day), "null" (for a name) and NullRecord (for an     *)
(* absent record).  A function that throws returns a record with           *)
(* threw = TRUE.  The time radix is read from the calendar data; the       *)
(* schemas of the model use a small radix, so that every time of day is    *)
(* enumerated.                                                             *)
(***************************************************************************)
EXTENDS Integers, FiniteSets, Sequences, TLC

VARIABLES
    calendarData,   \* CONFIG.time.worldCalendarConfig, months carrying dayOffset
    config,         \* CONFIG.time: _dsrKAEpochOffset and _dsrYearNameOffset
    worldTime,      \* game.time.worldTime, the instant committed by game.time.set
    moonSystem,     \* the AthasianMoonSystem: ral, guthay, eclipseCycle
    eclipseCache,   \* EclipseCalculator.eclipseCache: day -> eclipse record
    arg,            \* the argument the next operation is invoked with
    call,           \* the operation that was invoked, "none" before it
    ret,            \* what that operation returned
    chatHooks       \* the chat-command hooks: instances, listeners, registrations

vars == <<calendarData, config, worldTime, moonSystem, eclipseCache, arg, call, ret,
          chatHooks>>

-----------------------------------------------------------------------------
(* Bounds of the model *)

MaxYear == 2

-----------------------------------------------------------------------------
(* Representation of absent values *)

NoIndex == 0 - 1

NullRecord == [absent |-> TRUE]

\* the names registerCommands registers
CommandNames ==
    { "dsc-test", "date", "time", "year", "day", "advance", "set-date", "goto",
      "moons", "eclipse", "season", "kings-age", "free-year", "calendar", "events",
      "timeline" }

\* the chat-command hooks when the scripts have been loaded: no Chat
\* Commander, no DSC, the handler of 'dark-sun-calendar:ready' waiting, the
\* timer of 'ready' not set, darkSunChatCommands undefined (0), no instance
NoHooks ==
    [chatCommander |-> FALSE, dscReady |-> FALSE, onceDscReady |-> TRUE,
     timer |-> "unset", darkSunChatCommands |-> 0, instances |-> 0,
     listeners |-> {}, initialized |-> {},
     registered |-> [n \in CommandNames |-> 0], fired |-> 0]

Min(S) == CHOOSE x \in S : \A y \in S : x <= y

Max(S) == CHOOSE x \in S : \A y \in S : x >= y

\* the value of an expression, computed once: the element of a one-element set
TheOnly(S) == CHOOSE x \in S : TRUE

\* the % of JavaScript on integers: the result takes the sign of the dividend
JsRem(a, b) == IF a >= 0 THEN a % b ELSE 0 - ((0 - a) % b)

\* Math.floor(a / b) for b > 0
FloorDiv(a, b) == IF a >= 0 THEN a \div b ELSE 0 - (((0 - a) + b - 1) \div b)

-----------------------------------------------------------------------------
(* Calendar data: the month table and the time radix *)

RegularMonth(n) == [name |-> n, days |-> 30, intercalary |-> FALSE]

IntercalaryMonth(n) == [name |-> n, days |-> 5, intercalary |-> TRUE]

\* twelve 30-day months with a 5-day intercalary month after the 4th, 8th
\* and 12th of them: fifteen entries, 375 days
DarkSunMonths ==
    << RegularMonth("Month1"), RegularMonth("Month2"), RegularMonth("Month3"),
       RegularMonth("Month4"), IntercalaryMonth("Intercalary1"),
       RegularMonth("Month5"), RegularMonth("Month6"), RegularMonth("Month7"),
       RegularMonth("Month8"), IntercalaryMonth("Intercalary2"),
       RegularMonth("Month9"), RegularMonth("Month10"), RegularMonth("Month11"),
       RegularMonth("Month12"), IntercalaryMonth("Intercalary3") >>

\* a second, short month table: three months of 3, 1 and 2 days
ShortMonths ==
    << [name |-> "A", days |-> 3, intercalary |-> FALSE],
       [name |-> "B", days |-> 1, intercalary |-> TRUE],
       [name |-> "C", days |-> 2, intercalary |-> FALSE] >>

RECURSIVE SumDays(_, _)
SumDays(ms, n) == IF n = 0 THEN 0 ELSE SumDays(ms, n - 1) + ms[n].days

\* the calendarDataReady handler: every month receives the running offset
ExtendMonths(ms) ==
    [i \in 1..Len(ms) |->
        [name |-> ms[i].name, days |-> ms[i].days,
         intercalary |-> ms[i].intercalary,
         dayOffset |-> SumDays(ms, i - 1)]]

\* the anchor of the 77-year cycle
AnchorYear == 14656
AnchorKingsAge == 190
AnchorYearInAge == 27
AnchorYearName == "Wind's Reverance"

\* a list of len year names with the anchor name at 0-based index idx
YearNameList(len, idx) ==
    [i \in 1..len |-> IF i = idx + 1 THEN AnchorYearName ELSE ToString(i)]

\* the list of the calendar data: 77 names, year 27 of the age at index 26
DarkSunYearNames == YearNameList(77, 26)

CalendarJson(ms, h, mi, s, names) ==
    [months |-> ExtendMonths(ms), hoursPerDay |-> h, minutesPerHour |-> mi,
     secondsPerMinute |-> s, daysPerYear |-> SumDays(ms, Len(ms)),
     yearNames |-> names]

\* new DarkSunCalendar(config): the fields are taken from the calendar data as
\* they are
DarkSunCalendar(configJson) ==
    [months |-> configJson.months,
     hoursPerDay |-> configJson.hoursPerDay,
     minutesPerHour |-> configJson.minutesPerHour,
     secondsPerMinute |-> configJson.secondsPerMinute,
     daysPerYear |-> configJson.daysPerYear,
     yearNames |-> configJson.yearNames]

Schemas ==
    { CalendarJson(DarkSunMonths, 2, 2, 2, DarkSunYearNames),
      CalendarJson(ShortMonths, 3, 2, 2, DarkSunYearNames) }

-----------------------------------------------------------------------------
(* The King's Age cycle: offsets computed once at init, and their readers *)

_CYCLE == 77

_safeMod(n, m) == JsRem(JsRem(n, m) + m, m)

\* names.findIndex(n => n === anchor.yearName): first index, -1 when absent
FindIndex(names, name) ==
    LET hits == { i \in 0..(Len(names) - 1) : names[i + 1] = name }
    IN  IF hits = {} THEN 0 - 1 ELSE Min(hits)

_computeCycleOffsets(names) ==
    LET y         == AnchorYear
        r         == _safeMod((AnchorYearInAge - 1) - (y - 1), _CYCLE)
        base      == FloorDiv(y - 1 + r, _CYCLE)
        t         == AnchorKingsAge - 1 - base
        targetIdx == FindIndex(names, AnchorYearName)
    IN  [_dsrKAEpochOffset |-> r + _CYCLE * t,
         _dsrYearNameOffset |-> IF targetIdx >= 0
                                THEN _safeMod(targetIdx - (y - 1), _CYCLE)
                                ELSE 0]

getYearName(cfg, year, yearNames) ==
    IF Len(yearNames) = 0 THEN "null"
    ELSE LET CYCLE  == Len(yearNames)
             offset == cfg._dsrYearNameOffset
             idx    == JsRem(JsRem(year - 1 + offset, CYCLE) + CYCLE, CYCLE)
         IN  yearNames[idx + 1]

getKingsAge(cfg, year) == FloorDiv(year - 1 + cfg._dsrKAEpochOffset, 77) + 1

getKingsAgeYear(cfg, year) ==
    LET cycle == 77
        v     == JsRem(JsRem(year - 1 + cfg._dsrKAEpochOffset, cycle) + cycle, cycle)
    IN  v + 1

-----------------------------------------------------------------------------
(* DarkSunCalendar *)

secondsPerDay(cd) == cd.hoursPerDay * cd.minutesPerHour * cd.secondsPerMinute

\* FindMonth with the end of the interval included
FindMonth_inclusiveEnd(cd, dayOfYear0) ==
    LET hits == { i \in 0..(Len(cd.months) - 1) :
                    /\ dayOfYear0 >= cd.months[i + 1].dayOffset
                    /\ dayOfYear0 <= cd.months[i + 1].dayOffset + cd.months[i + 1].days }
    IN  IF hits = {} THEN NoIndex ELSE Min(hits)

\* the month loop of timeToComponents: first month whose half-open interval
\* [dayOffset, dayOffset + days) holds the 0-based day of the year
FindMonth(cd, dayOfYear0) ==
    LET hits == { i \in 0..(Len(cd.months) - 1) :
                    /\ dayOfYear0 >= cd.months[i + 1].dayOffset
                    /\ dayOfYear0 < cd.months[i + 1].dayOffset + cd.months[i + 1].days }
    IN  IF hits = {} THEN NoIndex ELSE Min(hits)

timeToComponents(cd, time) ==
    LET totalSeconds == time \div 1000
        second       == totalSeconds % cd.secondsPerMinute
        totalMinutes == totalSeconds \div cd.secondsPerMinute
        minute       == totalMinutes % cd.minutesPerHour
        totalHours   == totalMinutes \div cd.minutesPerHour
        hour         == totalHours % cd.hoursPerDay
        totalDays    == totalHours \div cd.hoursPerDay
        year         == (totalDays \div cd.daysPerYear) + 1
        dayOfYear0   == totalDays % cd.daysPerYear
        month        == FindMonth(cd, dayOfYear0)
    IN  [year |-> year,
         month |-> month,
         day |-> IF month = NoIndex THEN NoIndex
                 ELSE dayOfYear0 - cd.months[month + 1].dayOffset + 1,
         hour |-> hour, minute |-> minute, second |-> second,
         isIntercalary |-> IF month = NoIndex THEN FALSE
                           ELSE cd.months[month + 1].intercalary,
         monthName |-> IF month = NoIndex THEN "null"
                       ELSE cd.months[month + 1].name]

\* componentsToTime taking the day of the month as a 0-based count
componentsToTime_dayFromOne(cd, c) ==
    IF c.month \notin 0..(Len(cd.months) - 1)
    THEN [threw |-> TRUE, error |-> "Month not found in calendar data"]
    ELSE LET y            == c.year - 1
             m            == cd.months[c.month + 1]
             dayOfYear0   == m.dayOffset + c.day
             totalDays0   == y * cd.daysPerYear + dayOfYear0
             totalSeconds == totalDays0 * secondsPerDay(cd)
                             + c.hour * cd.minutesPerHour * cd.secondsPerMinute
                             + c.minute * cd.secondsPerMinute
                             + c.second
         IN  [threw |-> FALSE, value |-> totalSeconds * 1000]

componentsToTime(cd, c) ==
    IF c.month \notin 0..(Len(cd.months) - 1)
    THEN [threw |-> TRUE, error |-> "Month not found in calendar data"]
    ELSE LET y            == c.year - 1
             m            == cd.months[c.month + 1]
             dayOfYear0   == m.dayOffset + (c.day - 1)
             totalDays0   == y * cd.daysPerYear + dayOfYear0
             totalSeconds == totalDays0 * secondsPerDay(cd)
                             + c.hour * cd.minutesPerHour * cd.secondsPerMinute
                             + c.minute * cd.secondsPerMinute
                             + c.second
         IN  [threw |-> FALSE, value |-> totalSeconds * 1000]

\* getDayOfYear counting the day of the month from 0
getDayOfYear_dayFromZero(cd, c) ==
    IF c.month \notin 0..(Len(cd.months) - 1)
    THEN [threw |-> TRUE, error |-> "Month not found in calendar data"]
    ELSE [threw |-> FALSE, value |-> cd.months[c.month + 1].dayOffset + c.day - 1]

getDayOfYear(cd, c) ==
    IF c.month \notin 0..(Len(cd.months) - 1)
    THEN [threw |-> TRUE, error |-> "Month not found in calendar data"]
    ELSE [threw |-> FALSE, value |-> cd.months[c.month + 1].dayOffset + c.day]

\* getTotalCalendarDay with years taken one day short
getTotalCalendarDay_shortYear(cd, year, dayOfYear) ==
    (year - 1) * (cd.daysPerYear - 1) + dayOfYear

getTotalCalendarDay(cd, year, dayOfYear) == (year - 1) * cd.daysPerYear + dayOfYear

-----------------------------------------------------------------------------
(* MoonPhaseCalculator.  A phase fraction is held as a whole number of      *)
(* PhaseDen-ths: cycleDay / period is exact for the periods 33 and 125, and *)
(* offsets and tolerances are multiples of 1/200.                           *)

PhaseDen == 33 * 125 * 200

\* a tolerance or offset given in thousandths, in PhaseDen-ths
Thousandths(n) == n * (PhaseDen \div 1000)

\* new MoonPhaseCalculator(name, period, firstNewMoonDay, moonConfig):
\* the offset is the one of the configuration, 0 without one
MoonPhaseCalculator(name, period, firstNewMoonDay, moonConfig) ==
    [name |-> name, period |-> period, firstNewMoonDay |-> firstNewMoonDay,
     offset |-> IF moonConfig = NullRecord THEN 0 ELSE moonConfig.offset]

\* The checks of the constructor on a period given as the fraction n / d, d
\* positive, and an offset in PhaseDen-ths: the message of the error thrown,
\* "none" when nothing is thrown.  This one takes an offset of 1 as valid.
ConstructorError_offsetUpToOne(name, period, offset) ==
    IF period.n <= 0 THEN "Invalid period"
    ELSE IF period.n % period.d # 0 THEN "Period must be integer"
    ELSE IF offset < 0 \/ offset > PhaseDen THEN "Offset must be between 0 and 1"
    ELSE "none"

ConstructorError(name, period, offset) ==
    IF period.n <= 0 THEN "Invalid period"
    ELSE IF period.n % period.d # 0 THEN "Period must be integer"
    ELSE IF offset < 0 \/ offset >= PhaseDen THEN "Offset must be between 0 and 1"
    ELSE "none"

\* new MoonPhaseCalculator(...) with its validation: the calculator, or the
\* error thrown
NewMoonPhaseCalculator(name, period, firstNewMoonDay, moonConfig) ==
    LET offset == IF moonConfig = NullRecord THEN 0 ELSE moonConfig.offset
        error  == ConstructorError(name, period, offset)
    IN  IF error # "none" THEN [threw |-> TRUE, error |-> error]
        ELSE [threw |-> FALSE,
              value |-> MoonPhaseCalculator(name, period.n \div period.d,
                                            firstNewMoonDay, moonConfig)]

\* getCycleDay counting the reference new moon as day 1 of the cycle
getCycleDay_fromOne(moon, totalCalendarDay) ==
    LET daysSinceFirstNewMoon == totalCalendarDay - moon.firstNewMoonDay + 1
        cycleDay              == JsRem(daysSinceFirstNewMoon, moon.period)
    IN  IF cycleDay < 0 THEN cycleDay + moon.period ELSE cycleDay

getCycleDay(moon, totalCalendarDay) ==
    LET daysSinceFirstNewMoon == totalCalendarDay - moon.firstNewMoonDay
        cycleDay              == JsRem(daysSinceFirstNewMoon, moon.period)
    IN  IF cycleDay < 0 THEN cycleDay + moon.period ELSE cycleDay

\* getPhase without the step that brings a phase of 1 or more back below 1
getPhase_noWrap(moon, totalCalendarDay) ==
    LET cycleDay      == getCycleDay(moon, totalCalendarDay)
        basePhase     == cycleDay * (PhaseDen \div moon.period)
        adjustedPhase == basePhase + moon.offset
    IN  IF adjustedPhase < 0 THEN adjustedPhase + PhaseDen ELSE adjustedPhase

getPhase(moon, totalCalendarDay) ==
    LET cycleDay      == getCycleDay(moon, totalCalendarDay)
        basePhase     == cycleDay * (PhaseDen \div moon.period)
        adjustedPhase == basePhase + moon.offset
        wrappedDown   == IF adjustedPhase >= PhaseDen
                         THEN adjustedPhase - PhaseDen ELSE adjustedPhase
    IN  IF wrappedDown < 0 THEN wrappedDown + PhaseDen ELSE wrappedDown

\* IlluminationThreshold[k] is the largest distance from phase 0.5, in
\* PhaseDen-ths, at which Math.round(50 * (1 + Math.cos(2 * Math.PI *
\* (phase - 0.5)))) is at least k: floor(PhaseDen * acos((k - 0.5)/50 - 1) / (2 pi))
IlluminationThreshold ==
    << 393915, 380256, 370803, 363079, 356366, 350334, 344801, 339651, 334809, 330219,
       325841, 321644, 317602, 313697, 309913, 306235, 302653, 299157, 295739, 292392,
       289109, 285885, 282716, 279595, 276521, 273488, 270495, 267537, 264613, 261719,
       258854, 256014, 253200, 250407, 247635, 244882, 242147, 239427, 236722, 234030,
       231350, 228680, 226020, 223367, 220722, 218083, 215448, 212817, 210189, 207563,
       204936, 202310, 199682, 197051, 194416, 191777, 189132, 186479, 183819, 181149,
       178469, 175777, 173072, 170352, 167617, 164864, 162092, 159299, 156485, 153645,
       150780, 147886, 144962, 142004, 139011, 135978, 132904, 129783, 126614, 123390,
       120107, 116760, 113342, 109846, 106264, 102586, 98802, 94897, 90855, 86658,
       82280, 77690, 72848, 67698, 62165, 56133, 49420, 41696, 32243, 18584 >>

Abs(x) == IF x < 0 THEN 0 - x ELSE x

\* the cosine curve of getIllumination on a phase, rounded to a whole percent
IlluminationOfPhase(phase) ==
    Cardinality({ k \in 1..100 : Abs(phase - (PhaseDen \div 2)) <= IlluminationThreshold[k] })

getIllumination(moon, totalCalendarDay) ==
    IlluminationOfPhase(getPhase(moon, totalCalendarDay))

\* getPhaseName with the bin edges k * p / 8 cut down to whole days
getPhaseName_wholeDayEdges(moon, totalCalendarDay) ==
    LET cycleDay == getCycleDay(moon, totalCalendarDay)
        p        == moon.period
    IN  IF cycleDay >= 0 /\ cycleDay < p \div 8 THEN "New"
        ELSE IF cycleDay >= p \div 8 /\ cycleDay < p \div 4 THEN "Waxing Crescent"
        ELSE IF cycleDay >= p \div 4 /\ cycleDay < (3 * p) \div 8 THEN "First Quarter"
        ELSE IF cycleDay >= (3 * p) \div 8 /\ cycleDay < p \div 2 THEN "Waxing Gibbous"
        ELSE IF cycleDay >= p \div 2 /\ cycleDay < (5 * p) \div 8 THEN "Full"
        ELSE IF cycleDay >= (5 * p) \div 8 /\ cycleDay < (3 * p) \div 4 THEN "Waning Gibbous"
        ELSE IF cycleDay >= (3 * p) \div 4 /\ cycleDay < (7 * p) \div 8 THEN "Last Quarter"
        ELSE "Waning Crescent"

\* getPhaseName: the comparisons with p/8, p/4, 3*p/8, ... are exact in
\* doubles (eighths of a whole number), taken here on both sides times 8
getPhaseName(moon, totalCalendarDay) ==
    LET cycleDay == getCycleDay(moon, totalCalendarDay)
        p        == moon.period
    IN  IF cycleDay >= 0 /\ 8 * cycleDay < p THEN "New"
        ELSE IF 8 * cycleDay >= p /\ 4 * cycleDay < p THEN "Waxing Crescent"
        ELSE IF 4 * cycleDay >= p /\ 8 * cycleDay < 3 * p THEN "First Quarter"
        ELSE IF 8 * cycleDay >= 3 * p /\ 2 * cycleDay < p THEN "Waxing Gibbous"
        ELSE IF 2 * cycleDay >= p /\ 8 * cycleDay < 5 * p THEN "Full"
        ELSE IF 8 * cycleDay >= 5 * p /\ 4 * cycleDay < 3 * p THEN "Waning Gibbous"
        ELSE IF 4 * cycleDay >= 3 * p /\ 8 * cycleDay < 7 * p THEN "Last Quarter"
        ELSE "Waning Crescent"

\* getRiseSetTimes, in hundredths of an hour: (6 + 24 * phase) % 24 and
\* (18 + 24 * phase) % 24, each through Math.round(x * 100) / 100
RoundHundredths(hour, phase) ==
    LET den == PhaseDen \div 600      \* 2400 / PhaseDen = 4 / den
        x   == (hour * 100 * den + 4 * phase) % (2400 * den)
    IN  (2 * x + den) \div (2 * den)

getRiseSetTimes(moon, totalCalendarDay) ==
    LET phase == getPhase(moon, totalCalendarDay)
    IN  [rise |-> RoundHundredths(6, phase), set |-> RoundHundredths(18, phase)]

\* MoonPhaseCalculator.formatTime on a time in hundredths of an hour: the
\* hours and the minutes of HH:MM, the minutes being Math.round of 0.6 times
\* the hundredths (never half a minute, so the rounding is exact)
formatTime(hour) ==
    [hh |-> hour \div 100, mm |-> (6 * (hour % 100) + 5) \div 10]

getMoonData(moon, totalCalendarDay) ==
    [name |-> moon.name, period |-> moon.period, absoluteDay |-> totalCalendarDay,
     phase |-> getPhase(moon, totalCalendarDay),
     illumination |-> getIllumination(moon, totalCalendarDay),
     rise |-> getRiseSetTimes(moon, totalCalendarDay).rise,
     set |-> getRiseSetTimes(moon, totalCalendarDay).set]

isFull(moon, totalCalendarDay, tolerance) ==
    LET phase == getPhase(moon, totalCalendarDay)
    IN  phase < tolerance \/ phase > (PhaseDen - tolerance)

isNew(moon, totalCalendarDay, tolerance) ==
    LET phase == getPhase(moon, totalCalendarDay)
    IN  Abs(phase - 0) < tolerance \/ Abs(phase - PhaseDen) < tolerance

\* Math.ceil of a number of days held in PhaseDen-ths
CeilDays(n) == 0 - FloorDiv(0 - n, PhaseDen)

\* The products (1.5 - currentPhase) * period and (1.0 - currentPhase) * period
\* are taken in doubles.  On the cycle days below the exact product is a whole
\* number of days and the double product lies just above it, so that Math.ceil
\* gives one day more; on every other cycle day of these moons, with these
\* offsets, Math.ceil of the double product is the ceiling of the exact one.
FullMoonCeilExcess(moon) ==
    IF moon.offset # Thousandths(500) THEN {}
    ELSE IF moon.period = 33 THEN {11, 26} \cup 18..22
    ELSE IF moon.period = 125
    THEN {22, 23} \cup 51..54 \cup 86..89 \cup 102..123
    ELSE {}

NewMoonCeilExcess(moon) ==
    IF moon.offset # 0 THEN {}
    ELSE IF moon.period = 33 THEN {18, 22, 26, 30}
    ELSE IF moon.period = 125
    THEN 71..74 \cup 86..89 \cup 102..107 \cup 118..123
    ELSE {}

getNextFullMoon(moon, fromTotalCalendarDay) ==
    LET currentPhase == getPhase(moon, fromTotalCalendarDay)
        daysToNextFull ==
            IF Abs(currentPhase - (PhaseDen \div 2)) < Thousandths(10)
            THEN moon.period * PhaseDen
            ELSE IF currentPhase < (PhaseDen \div 2)
            THEN ((PhaseDen \div 2) - currentPhase) * moon.period
            ELSE (((3 * PhaseDen) \div 2) - currentPhase) * moon.period
        excess ==
            IF getCycleDay(moon, fromTotalCalendarDay) \in FullMoonCeilExcess(moon)
            THEN 1 ELSE 0
    IN  fromTotalCalendarDay + CeilDays(daysToNextFull) + excess

getNextNewMoon(moon, fromTotalCalendarDay) ==
    LET currentPhase == getPhase(moon, fromTotalCalendarDay)
        beforeHalf   == (0 - currentPhase) * moon.period
        daysToNextNew ==
            IF Abs(currentPhase - 0) < Thousandths(10)
                 \/ Abs(currentPhase - PhaseDen) < Thousandths(10)
            THEN moon.period * PhaseDen
            ELSE IF currentPhase < (PhaseDen \div 2)
            THEN IF beforeHalf < 0 THEN beforeHalf + moon.period * PhaseDen
                 ELSE beforeHalf
            ELSE (PhaseDen - currentPhase) * moon.period
        excess ==
            IF getCycleDay(moon, fromTotalCalendarDay) \in NewMoonCeilExcess(moon)
            THEN 1 ELSE 0
    IN  fromTotalCalendarDay + CeilDays(daysToNextNew) + excess

-----------------------------------------------------------------------------
(* AthasianMoonSystem *)

RECURSIVE gcd(_, _)
gcd(x, y) == IF y = 0 THEN x ELSE gcd(y, x % y)

\* calculateLCM returning the divisor it has computed
calculateLCM_gcdResult(a, b) == gcd(Abs(a), Abs(b))

calculateLCM(a, b) == Abs(a * b) \div gcd(Abs(a), Abs(b))

\* moonConfigs carries, for each moon, a configuration or none; a
\* configuration carries firstNewMoon {year, day} or none, and an offset
FirstNewMoonDay(moonConfig, default) ==
    IF moonConfig # NullRecord /\ moonConfig.firstNewMoon # NullRecord
    THEN (moonConfig.firstNewMoon.year - 1) * 375 + moonConfig.firstNewMoon.day
    ELSE default

AthasianMoonSystem(moonConfigs) ==
    LET ralConfig    == IF moonConfigs = NullRecord THEN NullRecord ELSE moonConfigs.Ral
        guthayConfig == IF moonConfigs = NullRecord THEN NullRecord ELSE moonConfigs.Guthay
    IN  [ral |-> MoonPhaseCalculator("Ral", 33, FirstNewMoonDay(ralConfig, 17), ralConfig),
         guthay |-> MoonPhaseCalculator("Guthay", 125,
                                        FirstNewMoonDay(guthayConfig, 63), guthayConfig),
         eclipseCycle |-> calculateLCM(33, 125)]

\* validateSystem: TRUE, or the error it throws
validateSystem(ms) ==
    LET ralNewMoonData    == getMoonData(ms.ral, ms.ral.firstNewMoonDay)
        guthayNewMoonData == getMoonData(ms.guthay, ms.guthay.firstNewMoonDay)
    IN  IF ralNewMoonData.illumination > 5
        THEN [threw |-> TRUE, error |-> "Ral not new at first new moon"]
        ELSE IF guthayNewMoonData.illumination > 5
        THEN [threw |-> TRUE, error |-> "Guthay not new at first new moon"]
        ELSE IF Abs(ralNewMoonData.rise - 600) > 1
        THEN [threw |-> TRUE, error |-> "Ral rise time incorrect at first new moon"]
        ELSE IF Abs(guthayNewMoonData.rise - 600) > 1
        THEN [threw |-> TRUE, error |-> "Guthay rise time incorrect at first new moon"]
        ELSE [threw |-> FALSE, value |-> TRUE]

-----------------------------------------------------------------------------
(* EclipseCalculator.  Magnitudes are held in thousandths, durations in     *)
(* tenths of an hour.                                                       *)

\* this.tolerances
ToleranceGrand == Thousandths(5)
TolerancePartial == Thousandths(50)
ToleranceTotal == Thousandths(20)

EmptyCache == [d \in {} |-> NullRecord]

\* determineAlignment without the test for a difference that wraps round 1
determineAlignment_noWrap(ralPhase, guthayPhase) ==
    LET phaseDiff          == Abs(ralPhase - guthayPhase)
        alignmentThreshold == Thousandths(10)
    IN  IF phaseDiff < alignmentThreshold
        THEN "perfect_alignment"
        ELSE IF ralPhase < guthayPhase
        THEN "ral_occludes_guthay"
        ELSE "guthay_occludes_ral"

determineAlignment(ralPhase, guthayPhase) ==
    LET phaseDiff          == Abs(ralPhase - guthayPhase)
        alignmentThreshold == Thousandths(10)
    IN  IF phaseDiff < alignmentThreshold \/ phaseDiff > (PhaseDen - alignmentThreshold)
        THEN "perfect_alignment"
        ELSE IF ralPhase < guthayPhase
        THEN "ral_occludes_guthay"
        ELSE "guthay_occludes_ral"

\* Math.round((ralMagnitude * guthayMagnitude) * 1000) / 1000, in thousandths
calculateMagnitude(ralIllumination, guthayIllumination) ==
    (ralIllumination * guthayIllumination + 5) \div 10

\* Math.round(5 * sin(2 pi r / 4125)) for 0 <= r < 4125: the value from each
\* listed r on, up to the next one
DurationSteps ==
    << <<0, 0>>, <<66, 1>>, <<201, 2>>, <<344, 3>>, <<510, 4>>, <<736, 5>>,
       <<1328, 4>>, <<1554, 3>>, <<1719, 2>>, <<1863, 1>>, <<1997, 0>>,
       <<2129, 0 - 1>>, <<2263, 0 - 2>>, <<2407, 0 - 3>>, <<2572, 0 - 4>>,
       <<2798, 0 - 5>>, <<3390, 0 - 4>>, <<3616, 0 - 3>>, <<3782, 0 - 2>>,
       <<3925, 0 - 1>>, <<4060, 0>> >>

BaseDuration(eclipseType) ==
    IF eclipseType = "grand" THEN 8 ELSE IF eclipseType = "total" THEN 6 ELSE 4

calculateEclipseDuration(ms, absoluteDay, eclipseType) ==
    LET r    == JsRem(absoluteDay, ms.eclipseCycle)
        last == Max({ i \in 1..Len(DurationSteps) : DurationSteps[i][1] <= Abs(r) })
        v    == DurationSteps[last][2]
    IN  BaseDuration(eclipseType) * 10 + (IF r < 0 THEN 0 - v ELSE v)

\* the branches of getEclipseInfo that choose the type
EclipseTypeOf(ms, absoluteDay) ==
    LET ralFull    == isFull(ms.ral, absoluteDay, TolerancePartial)
        guthayFull == isFull(ms.guthay, absoluteDay, TolerancePartial)
    IN  IF ralFull /\ guthayFull
        THEN IF /\ isFull(ms.ral, absoluteDay, ToleranceGrand)
                /\ isFull(ms.guthay, absoluteDay, ToleranceGrand)
             THEN "grand"
             ELSE IF /\ isFull(ms.ral, absoluteDay, ToleranceTotal)
                     /\ isFull(ms.guthay, absoluteDay, ToleranceTotal)
             THEN "total"
             ELSE "partial"
        ELSE "none"

\* the eclipseInfo object getEclipseInfo fills in from the data of the two
\* moons and the type it has chosen; the description text, which is a function
\* of the other fields, is left out of the record
EclipseRecord(ms, absoluteDay, ralData, guthayData, type) ==
    [absoluteDay |-> absoluteDay,
     type |-> type,
     alignment |-> IF type = "none" THEN "none"
                   ELSE IF type = "grand" THEN "perfect_alignment"
                   ELSE determineAlignment(ralData.phase, guthayData.phase),
     ralIllumination |-> ralData.illumination,
     guthayIllumination |-> guthayData.illumination,
     ralPhase |-> ralData.phase,
     guthayPhase |-> guthayData.phase,
     magnitude |-> IF type = "none" THEN 0
                   ELSE IF type = "grand" THEN 1000
                   ELSE calculateMagnitude(ralData.illumination,
                                           guthayData.illumination),
     duration |-> IF type = "none" THEN 0
                  ELSE calculateEclipseDuration(ms, absoluteDay, type),
     isVisible |-> type # "none"]

\* getEclipseInfo on a day that is not in the cache
ComputeEclipseInfo(ms, absoluteDay) ==
    TheOnly({ EclipseRecord(ms, absoluteDay, ralData, guthayData, type) :
              ralData \in {getMoonData(ms.ral, absoluteDay)},
              guthayData \in {getMoonData(ms.guthay, absoluteDay)},
              type \in {EclipseTypeOf(ms, absoluteDay)} })

\* getEclipseInfo with a cache key that is the day within Guthay's cycle
getEclipseInfo_keyPerCycle(ms, cache, absoluteDay) ==
    IF (absoluteDay % ms.guthay.period) \in DOMAIN cache
    THEN cache[absoluteDay % ms.guthay.period]
    ELSE ComputeEclipseInfo(ms, absoluteDay)

\* getEclipseInfo: the cached record when the day has one
getEclipseInfo(ms, cache, absoluteDay) ==
    IF absoluteDay \in DOMAIN cache THEN cache[absoluteDay]
    ELSE ComputeEclipseInfo(ms, absoluteDay)

\* getEclipseInfo storing its records in a cache that holds nothing else
CacheAfter_onlyNew(ms, cache, days) ==
    [d \in days |-> ComputeEclipseInfo(ms, d)]

\* the cache after getEclipseInfo has been called on every day of a set
CacheAfter(ms, cache, days) ==
    [d \in (DOMAIN cache) \cup days |->
        IF d \in DOMAIN cache THEN cache[d] ELSE ComputeEclipseInfo(ms, d)]

\* typeOrder.indexOf(type) for typeOrder = [PARTIAL, TOTAL, GRAND]
TypeIndex(type) ==
    IF type = "partial" THEN 0
    ELSE IF type = "total" THEN 1
    ELSE IF type = "grand" THEN 2
    ELSE 0 - 1

\* the test both search loops make on the record of a day
Qualifies(ms, cache, searchDay, minType) ==
    \E eclipseInfo \in {getEclipseInfo(ms, cache, searchDay)} :
        /\ eclipseInfo.type # "none"
        /\ TypeIndex(eclipseInfo.type) >= TypeIndex(minType)

\* the loop of findNextEclipse over lo..hi in ascending order: the first day
\* that qualifies, NoDay when the loop runs out.  The days are taken half by
\* half, the later half only when the earlier half has no day that qualifies
NoDay == [absent |-> TRUE]

RECURSIVE FirstAscending(_, _, _, _, _)
FirstAscending(ms, cache, lo, hi, minType) ==
    IF lo > hi THEN NoDay
    ELSE IF lo = hi
    THEN IF Qualifies(ms, cache, lo, minType) THEN [absent |-> FALSE, day |-> lo]
         ELSE NoDay
    ELSE TheOnly({ TheOnly({ IF ~early.absent THEN early
                             ELSE FirstAscending(ms, cache, mid + 1, hi, minType) :
                             early \in {FirstAscending(ms, cache, lo, mid, minType)} }) :
                   mid \in {lo + ((hi - lo) \div 2)} })

\* the loop of findPreviousEclipse over hi down to lo
RECURSIVE FirstDescending(_, _, _, _, _)
FirstDescending(ms, cache, lo, hi, minType) ==
    IF lo > hi THEN NoDay
    ELSE IF lo = hi
    THEN IF Qualifies(ms, cache, hi, minType) THEN [absent |-> FALSE, day |-> hi]
         ELSE NoDay
    ELSE TheOnly({ TheOnly({ IF ~late.absent THEN late
                             ELSE FirstDescending(ms, cache, lo, mid, minType) :
                             late \in {FirstDescending(ms, cache, mid + 1, hi, minType)} }) :
                   mid \in {lo + ((hi - lo) \div 2)} })

\* findNextEclipse with the scan started on fromAbsoluteDay itself
findNextEclipse_fromDay(ms, cache, fromAbsoluteDay, minType) ==
    LET maxSearchDays == ms.eclipseCycle * 2
    IN  TheOnly({ [found |-> found,
                   visited |-> IF found.absent
                               THEN fromAbsoluteDay..(fromAbsoluteDay + maxSearchDays)
                               ELSE fromAbsoluteDay..found.day] :
                  found \in {FirstAscending(ms, cache, fromAbsoluteDay,
                                    fromAbsoluteDay + maxSearchDays, minType)} })

\* findNextEclipse giving up after a tenth of an eclipse cycle
findNextEclipse_shortSearch(ms, cache, fromAbsoluteDay, minType) ==
    LET maxSearchDays == ms.eclipseCycle \div 10
    IN  TheOnly({ [found |-> found,
                   visited |-> IF found.absent
                               THEN (fromAbsoluteDay + 1)..(fromAbsoluteDay + maxSearchDays)
                               ELSE (fromAbsoluteDay + 1)..found.day] :
                  found \in {FirstAscending(ms, cache, fromAbsoluteDay + 1,
                                    fromAbsoluteDay + maxSearchDays, minType)} })

\* findNextEclipse(fromAbsoluteDay, minType): the day found (or none) and the
\* days getEclipseInfo was called on
findNextEclipse(ms, cache, fromAbsoluteDay, minType) ==
    LET maxSearchDays == ms.eclipseCycle * 2
    IN  TheOnly({ [found |-> found,
                   visited |-> IF found.absent
                               THEN (fromAbsoluteDay + 1)..(fromAbsoluteDay + maxSearchDays)
                               ELSE (fromAbsoluteDay + 1)..found.day] :
                  found \in {FirstAscending(ms, cache, fromAbsoluteDay + 1,
                                    fromAbsoluteDay + maxSearchDays, minType)} })

\* findPreviousEclipse with the scan started on fromAbsoluteDay itself
findPreviousEclipse_fromDay(ms, cache, fromAbsoluteDay, minType) ==
    LET maxSearchDays == ms.eclipseCycle * 2
        startSearch   == Max({0, fromAbsoluteDay - maxSearchDays})
    IN  TheOnly({ [found |-> found,
                   visited |-> IF found.absent
                               THEN startSearch..fromAbsoluteDay
                               ELSE found.day..fromAbsoluteDay] :
                  found \in {FirstDescending(ms, cache, startSearch, fromAbsoluteDay, minType)} })

findPreviousEclipse(ms, cache, fromAbsoluteDay, minType) ==
    LET maxSearchDays == ms.eclipseCycle * 2
        startSearch   == Max({0, fromAbsoluteDay - maxSearchDays})
    IN  TheOnly({ [found |-> found,
                   visited |-> IF found.absent
                               THEN startSearch..(fromAbsoluteDay - 1)
                               ELSE found.day..(fromAbsoluteDay - 1)] :
                  found \in {FirstDescending(ms, cache, startSearch, fromAbsoluteDay - 1, minType)} })

\* findEclipsesInRange: the days it calls getEclipseInfo on are the multiples
\* of eclipseCycle from floor(start / cycle) * cycle to ceil(end / cycle) * cycle
\* that lie in start..end
RangeDays(ms, startAbsoluteDay, endAbsoluteDay) ==
    LET cycleStart == FloorDiv(startAbsoluteDay, ms.eclipseCycle)
        cycleEnd   == 0 - FloorDiv(0 - endAbsoluteDay, ms.eclipseCycle)
    IN  { k * ms.eclipseCycle : k \in cycleStart..cycleEnd }
            \cap startAbsoluteDay..endAbsoluteDay

\* the records of a set of days in ascending order of absoluteDay
RECURSIVE SortedRecords(_, _, _)
SortedRecords(ms, cache, days) ==
    IF days = {} THEN << >>
    ELSE TheOnly({ <<getEclipseInfo(ms, cache, first)>>
                       \o SortedRecords(ms, cache, days \ {first}) :
                   first \in {Min(days)} })

findEclipsesInRange(ms, cache, startAbsoluteDay, endAbsoluteDay, minType) ==
    TheOnly({ [eclipses |-> SortedRecords(ms, cache,
                               { d \in visited : Qualifies(ms, cache, d, minType) }),
               visited |-> visited] :
              visited \in {RangeDays(ms, startAbsoluteDay, endAbsoluteDay)} })

hasEclipse(ms, cache, absoluteDay) ==
    getEclipseInfo(ms, cache, absoluteDay).type # "none"

\* clearCache: this.eclipseCache.clear()
clearCache(cache) == EmptyCache

-----------------------------------------------------------------------------
(* Inputs of the calendar operations *)

Years == 1..MaxYear

\* month indices, one below and one above the table included
MonthIndices(cd) == (0 - 1)..Len(cd.months)

\* days of the month, 0 and the day after a 30-day month included
DayNumbers == 0..31

ComponentsInputs(cd) ==
    [year : Years, month : MonthIndices(cd), day : DayNumbers,
     hour : 0..(cd.hoursPerDay - 1), minute : 0..(cd.minutesPerHour - 1),
     second : 0..(cd.secondsPerMinute - 1)]

\* the isIntercalary and monthName a DateComponents carries for its month
WithMonthFields(cd, c) ==
    [year |-> c.year, month |-> c.month, day |-> c.day,
     hour |-> c.hour, minute |-> c.minute, second |-> c.second,
     isIntercalary |-> IF c.month \in 0..(Len(cd.months) - 1)
                       THEN cd.months[c.month + 1].intercalary ELSE FALSE,
     monthName |-> IF c.month \in 0..(Len(cd.months) - 1)
                   THEN cd.months[c.month + 1].name ELSE "null"]

InRange(cd, c) ==
    /\ c.year >= 1
    /\ c.month \in 0..(Len(cd.months) - 1)
    /\ c.day >= 1
    /\ c.day <= cd.months[c.month + 1].days
    /\ c.hour \in 0..(cd.hoursPerDay - 1)
    /\ c.minute \in 0..(cd.minutesPerHour - 1)
    /\ c.second \in 0..(cd.secondsPerMinute - 1)

\* instants of the first MaxYear years, whole seconds and the last
\* millisecond of each second
Instants(cd) ==
    { s * 1000 + ms : s \in 0..(MaxYear * cd.daysPerYear * secondsPerDay(cd) - 1),
                      ms \in {0, 999} }

-----------------------------------------------------------------------------
(* The calendar as a state machine *)

NoCall == "none"

\* the four numbers /set-date parses from its arguments
SetDateInputs ==
    [kingsAge : {0, 1}, kingsAgeYear : {0, 1, 77, 78}, month : 0..13, day : DayNumbers]

\* the years getTotalCalendarDay is asked about: before year 1 as well
YearDayYears == (0 - 1)..MaxYear

\* the reference new moons {year, day} of the moon configurations
FirstNewMoons ==
    { NullRecord, [year |-> 1, day |-> 17], [year |-> 1, day |-> 63],
      [year |-> 2, day |-> 5] }

\* moon configurations in which a moon may lack its reference new moon
LoadMoonConfigs ==
    { NullRecord }
    \cup { [Ral |-> [firstNewMoon |-> rf, offset |-> 0],
            Guthay |-> [firstNewMoon |-> gf, offset |-> 0]] :
            rf \in FirstNewMoons, gf \in FirstNewMoons }

CalendarArgs(cd) ==
    { [kind |-> "instant", time |-> t] : t \in Instants(cd) }
    \cup { [kind |-> "components", c |-> c] : c \in ComponentsInputs(cd) }
    \cup { [kind |-> "setDate", a |-> a] : a \in SetDateInputs }
    \cup { [kind |-> "yearDay", year |-> y, dayOfYear |-> d] :
               y \in YearDayYears, d \in 1..cd.daysPerYear }
    \cup { [kind |-> "moonConfigs", moonConfigs |-> mc] : mc \in LoadMoonConfigs }

InitCalendar ==
    /\ calendarData \in Schemas
    /\ config = _computeCycleOffsets(calendarData.yearNames)
    /\ worldTime = 0
    /\ moonSystem = AthasianMoonSystem(NullRecord)
    /\ eclipseCache = EmptyCache
    /\ arg \in CalendarArgs(calendarData)
    /\ call = NoCall
    /\ ret = NullRecord
    /\ chatHooks = NoHooks

\* game.time.calendar.timeToComponents(t)
TimeToComponents ==
    /\ call = NoCall
    /\ arg.kind = "instant"
    /\ call' = "timeToComponents"
    /\ ret' = timeToComponents(calendarData, arg.time)
    /\ UNCHANGED <<calendarData, config, worldTime, moonSystem, eclipseCache, arg, chatHooks>>

\* game.time.calendar.componentsToTime(c)
ComponentsToTime ==
    /\ call = NoCall
    /\ arg.kind = "components"
    /\ call' = "componentsToTime"
    /\ ret' = componentsToTime(calendarData, arg.c)
    /\ UNCHANGED <<calendarData, config, worldTime, moonSystem, eclipseCache, arg, chatHooks>>

\* window.setCalendarDate(year, month + 1, day, hour, minute, second): the
\* components go through componentsToTime, the instant is committed with
\* game.time.set and read back through timeToComponents
SetCalendarDate ==
    /\ call = NoCall
    /\ arg.kind = "components"
    /\ call' = "setCalendarDate"
    /\ LET newTime == componentsToTime(calendarData, arg.c) IN
         IF newTime.threw
         THEN /\ ret' = newTime
              /\ UNCHANGED worldTime
         ELSE /\ worldTime' = newTime.value
              /\ ret' = [threw |-> FALSE, newTime |-> newTime.value,
                         actualComponents |->
                             timeToComponents(calendarData, newTime.value)]
    /\ UNCHANGED <<calendarData, config, moonSystem, eclipseCache, arg, chatHooks>>

\* DSC.setKingsAgeDate(kingsAge, kingsAgeYear, month, day): the components
\* window.setCalendarDate builds from it
KingsAgeComponents(cfg, a) ==
    LET KAE           == cfg._dsrKAEpochOffset
        effectiveYear == (a.kingsAge - 1) * 77 + a.kingsAgeYear
    IN  [year |-> effectiveYear - KAE, month |-> a.month - 1, day |-> a.day,
         hour |-> 0, minute |-> 0, second |-> 0]

\* DarkSunChatCommands.handleSetDateCommand with four numeric arguments
HandleSetDateCommand ==
    /\ call = NoCall
    /\ arg.kind = "setDate"
    /\ call' = "handleSetDateCommand"
    /\ LET a == arg.a IN
         IF a.kingsAge < 1
         THEN /\ ret' = [error |-> "King's Age must be a positive number"]
              /\ UNCHANGED worldTime
         ELSE IF a.kingsAgeYear < 1 \/ a.kingsAgeYear > 77
         THEN /\ ret' = [error |-> "King's Age Year must be between 1 and 77"]
              /\ UNCHANGED worldTime
         ELSE IF a.month < 1 \/ a.month > 12
         THEN /\ ret' = [error |-> "Month must be between 1 and 12"]
              /\ UNCHANGED worldTime
         ELSE IF a.day < 1 \/ a.day > 30
         THEN /\ ret' = [error |-> "Day must be between 1 and 30"]
              /\ UNCHANGED worldTime
         ELSE LET c       == KingsAgeComponents(config, a)
                  newTime == componentsToTime(calendarData, c)
              IN  IF newTime.threw
                  THEN /\ ret' = [error |-> "Error setting date"]
                       /\ UNCHANGED worldTime
                  ELSE /\ worldTime' = newTime.value
                       /\ ret' = [error |-> "none", components |-> c,
                                  currentDate |->
                                      timeToComponents(calendarData, newTime.value)]
    /\ UNCHANGED <<calendarData, config, moonSystem, eclipseCache, arg, chatHooks>>

\* game.time.calendar.getTotalCalendarDay(year, dayOfYear)
GetTotalCalendarDay ==
    /\ call = NoCall
    /\ arg.kind = "yearDay"
    /\ call' = "getTotalCalendarDay"
    /\ ret' = [value |-> getTotalCalendarDay(calendarData, arg.year, arg.dayOfYear)]
    /\ UNCHANGED <<calendarData, config, worldTime, moonSystem, eclipseCache, arg, chatHooks>>

\* game.time.calendar.getDayOfYear(components)
GetDayOfYear ==
    /\ call = NoCall
    /\ arg.kind = "components"
    /\ call' = "getDayOfYear"
    /\ ret' = getDayOfYear(calendarData, arg.c)
    /\ UNCHANGED <<calendarData, config, worldTime, moonSystem, eclipseCache, arg, chatHooks>>

\* new AthasianMoonSystem(moonConfigs)
NewAthasianMoonSystem ==
    /\ call = NoCall
    /\ arg.kind = "moonConfigs"
    /\ call' = "newAthasianMoonSystem"
    /\ moonSystem' = AthasianMoonSystem(arg.moonConfigs)
    /\ ret' = [threw |-> FALSE, value |-> moonSystem']
    /\ UNCHANGED <<calendarData, config, worldTime, eclipseCache, arg, chatHooks>>

NextCalendar ==
    \/ TimeToComponents \/ ComponentsToTime \/ SetCalendarDate \/ HandleSetDateCommand
    \/ GetTotalCalendarDay \/ GetDayOfYear \/ NewAthasianMoonSystem

SpecCalendar == InitCalendar /\ [][NextCalendar]_vars

-----------------------------------------------------------------------------
(* The cycle readers as a state machine: the year-name list is drawn from  *)
(* lists that contain the anchor name, the offsets are computed from it,   *)
(* and one year is looked up                                               *)

\* lengths of the year-name lists
NameListLengths == {7, 10, 11, 77}

NameLists == { YearNameList(len, idx) : len \in NameListLengths, idx \in {0, 3, 6} }
             \cup { DarkSunYearNames, YearNameList(77, 76) }

\* years around year 1 and around the anchor
YearSpan == 80

CycleYears == ((0 - YearSpan)..(2 * YearSpan))
              \cup ((AnchorYear - YearSpan)..(AnchorYear + YearSpan))

InitCycle ==
    /\ \E names \in NameLists :
          calendarData = CalendarJson(DarkSunMonths, 2, 2, 2, names)
    /\ config = _computeCycleOffsets(calendarData.yearNames)
    /\ worldTime = 0
    /\ moonSystem = AthasianMoonSystem(NullRecord)
    /\ eclipseCache = EmptyCache
    /\ arg \in { [kind |-> "year", year |-> y] : y \in CycleYears }
    /\ call = NoCall
    /\ ret = NullRecord
    /\ chatHooks = NoHooks

\* DSC.formatDarkSunDate({year}): the three readers on one year
FormatDarkSunDate ==
    /\ call = NoCall
    /\ arg.kind = "year"
    /\ call' = "formatDarkSunDate"
    /\ ret' = [name |-> getYearName(config, arg.year, calendarData.yearNames),
               ka |-> getKingsAge(config, arg.year),
               kay |-> getKingsAgeYear(config, arg.year)]
    /\ UNCHANGED <<calendarData, config, worldTime, moonSystem, eclipseCache, arg, chatHooks>>

NextCycle == FormatDarkSunDate

SpecCycle == InitCycle /\ [][NextCycle]_vars

-----------------------------------------------------------------------------
(* The moon system as a state machine: it is built from a configuration,   *)
(* and one query is made of one of its moons on one day                    *)

\* the phase offsets a configuration gives a moon: none, a quarter, a half
ConfiguredOffsets == {0, Thousandths(250), Thousandths(500)}

MoonConfigSets ==
    { NullRecord }
    \cup { [Ral |-> [firstNewMoon |-> [year |-> 1, day |-> 17], offset |-> ro],
            Guthay |-> [firstNewMoon |-> [year |-> 1, day |-> 63], offset |-> go]] :
            ro \in ConfiguredOffsets, go \in ConfiguredOffsets }
    \cup { [Ral |-> [firstNewMoon |-> f, offset |-> 0],
            Guthay |-> [firstNewMoon |-> f, offset |-> 0]] : f \in FirstNewMoons }
    \cup { [Ral |-> [firstNewMoon |-> [year |-> 1, day |-> 17],
                     offset |-> Thousandths(265)],
            Guthay |-> [firstNewMoon |-> [year |-> 1, day |-> 63], offset |-> 0]] }

\* days on both sides of the reference new moons, a full Guthay cycle each way
MaxMoonDay == 130

MoonDays == (0 - MaxMoonDay)..MaxMoonDay

\* the tolerances of the eclipse bands and the default of isFull and isNew
Tolerances == { Thousandths(5), Thousandths(20), Thousandths(50) }

\* periods given to the constructor, as fractions: negative, zero, whole and
\* not whole
ConstructorPeriods ==
    { [n |-> n, d |-> d] : n \in {0 - 33, 0 - 1, 0, 1, 33, 66, 125}, d \in {1, 2} }

\* configurations given to the constructor: none, or one with an offset
ConstructorConfigs ==
    { NullRecord }
    \cup { [firstNewMoon |-> NullRecord, offset |-> o] :
               o \in {0 - PhaseDen, 0 - 1, 0, Thousandths(250), PhaseDen - 1,
                      PhaseDen, PhaseDen + 1, 2 * PhaseDen} }

MoonArgs ==
    { [kind |-> "moonDay", moon |-> m, day |-> t, tolerance |-> tol] :
        m \in {"ral", "guthay"}, t \in MoonDays, tol \in Tolerances }
    \cup { [kind |-> "system"] }
    \cup { [kind |-> "construct", period |-> per, moonConfig |-> mc] :
               per \in ConstructorPeriods, mc \in ConstructorConfigs }

TheMoon(ms, m) == IF m = "ral" THEN ms.ral ELSE ms.guthay

InitMoon ==
    /\ calendarData = CalendarJson(DarkSunMonths, 2, 2, 2, DarkSunYearNames)
    /\ config = _computeCycleOffsets(calendarData.yearNames)
    /\ worldTime = 0
    /\ \E moonConfigs \in MoonConfigSets : moonSystem = AthasianMoonSystem(moonConfigs)
    /\ eclipseCache = EmptyCache
    /\ arg \in MoonArgs
    /\ call = NoCall
    /\ ret = NullRecord
    /\ chatHooks = NoHooks

GetMoonData ==
    /\ call = NoCall
    /\ arg.kind = "moonDay"
    /\ call' = "getMoonData"
    /\ ret' = getMoonData(TheMoon(moonSystem, arg.moon), arg.day)
    /\ UNCHANGED <<calendarData, config, worldTime, moonSystem, eclipseCache, arg, chatHooks>>

IsFull ==
    /\ call = NoCall
    /\ arg.kind = "moonDay"
    /\ call' = "isFull"
    /\ ret' = [value |-> isFull(TheMoon(moonSystem, arg.moon), arg.day, arg.tolerance)]
    /\ UNCHANGED <<calendarData, config, worldTime, moonSystem, eclipseCache, arg, chatHooks>>

IsNew ==
    /\ call = NoCall
    /\ arg.kind = "moonDay"
    /\ call' = "isNew"
    /\ ret' = [value |-> isNew(TheMoon(moonSystem, arg.moon), arg.day, arg.tolerance)]
    /\ UNCHANGED <<calendarData, config, worldTime, moonSystem, eclipseCache, arg, chatHooks>>

ValidateSystem ==
    /\ call = NoCall
    /\ arg.kind = "system"
    /\ call' = "validateSystem"
    /\ ret' = validateSystem(moonSystem)
    /\ UNCHANGED <<calendarData, config, worldTime, moonSystem, eclipseCache, arg, chatHooks>>

GetNextFullMoon ==
    /\ call = NoCall
    /\ arg.kind = "moonDay"
    /\ call' = "getNextFullMoon"
    /\ ret' = [value |-> getNextFullMoon(TheMoon(moonSystem, arg.moon), arg.day)]
    /\ UNCHANGED <<calendarData, config, worldTime, moonSystem, eclipseCache, arg, chatHooks>>

GetNextNewMoon ==
    /\ call = NoCall
    /\ arg.kind = "moonDay"
    /\ call' = "getNextNewMoon"
    /\ ret' = [value |-> getNextNewMoon(TheMoon(moonSystem, arg.moon), arg.day)]
    /\ UNCHANGED <<calendarData, config, worldTime, moonSystem, eclipseCache, arg, chatHooks>>

\* new MoonPhaseCalculator("Ral", period, 17, moonConfig)
Construct ==
    /\ call = NoCall
    /\ arg.kind = "construct"
    /\ call' = "construct"
    /\ ret' = NewMoonPhaseCalculator("Ral", arg.period, 17, arg.moonConfig)
    /\ UNCHANGED <<calendarData, config, worldTime, moonSystem, eclipseCache, arg, chatHooks>>

GetPhaseName ==
    /\ call = NoCall
    /\ arg.kind = "moonDay"
    /\ call' = "getPhaseName"
    /\ ret' = [value |-> getPhaseName(TheMoon(moonSystem, arg.moon), arg.day)]
    /\ UNCHANGED <<calendarData, config, worldTime, moonSystem, eclipseCache, arg, chatHooks>>

\* getRiseSetTimes(t) and the formatTime renderings getMoonData makes of it
GetRiseSetTimes ==
    /\ call = NoCall
    /\ arg.kind = "moonDay"
    /\ call' = "getRiseSetTimes"
    /\ \E times \in {getRiseSetTimes(TheMoon(moonSystem, arg.moon), arg.day)} :
          ret' = [rise |-> times.rise, set |-> times.set,
                  riseFormatted |-> formatTime(times.rise),
                  setFormatted |-> formatTime(times.set)]
    /\ UNCHANGED <<calendarData, config, worldTime, moonSystem, eclipseCache, arg, chatHooks>>

NextMoon ==
    \/ GetMoonData \/ IsFull \/ IsNew \/ ValidateSystem
    \/ GetNextFullMoon \/ GetNextNewMoon \/ Construct \/ GetPhaseName
    \/ GetRiseSetTimes

SpecMoon == InitMoon /\ [][NextMoon]_vars

-----------------------------------------------------------------------------
(* The eclipse calculator as a state machine: one calculator over the moon *)
(* system, its cache empty or already holding some days, and one call;     *)
(* after findNextEclipse the day it found is given to findPreviousEclipse  *)

\* days getEclipseInfo is asked about
MaxEclipseDay == 330

\* with the default moons both phases are 0 on day 2063
\* and on day -313 Ral is at phase 0 and Guthay at 124/125
EclipseDays == (0 - 20)..MaxEclipseDay \cup 2060..2066 \cup (0 - 315)..(0 - 311)

\* days the searches start from
SearchDays == {0 - 200, 0 - 5, 0, 182, 183, 200, 314, 315, 1000, 2062, 2063, 8300}

MinTypes == {"none", "partial", "total", "grand"}

\* days already in the cache when the call is made
WarmDays == 180..190

EclipseArgs ==
    { [kind |-> "day", day |-> t] : t \in EclipseDays }
    \cup { [kind |-> "search", from |-> d, minType |-> m] :
              d \in SearchDays, m \in MinTypes }

InitEclipse ==
    /\ calendarData = CalendarJson(DarkSunMonths, 2, 2, 2, DarkSunYearNames)
    /\ config = _computeCycleOffsets(calendarData.yearNames)
    /\ worldTime = 0
    /\ moonSystem = AthasianMoonSystem(NullRecord)
    /\ eclipseCache \in { EmptyCache, CacheAfter(moonSystem, EmptyCache, WarmDays) }
    /\ arg \in EclipseArgs
    /\ call = NoCall
    /\ ret = NullRecord
    /\ chatHooks = NoHooks

GetEclipseInfo ==
    /\ call = NoCall
    /\ arg.kind = "day"
    /\ call' = "getEclipseInfo"
    /\ ret' = getEclipseInfo(moonSystem, eclipseCache, arg.day)
    /\ eclipseCache' = CacheAfter(moonSystem, eclipseCache, {arg.day})
    /\ UNCHANGED <<calendarData, config, worldTime, moonSystem, arg, chatHooks>>

FindNextEclipse ==
    /\ call = NoCall
    /\ arg.kind = "search"
    /\ call' = "findNextEclipse"
    /\ \E r \in {findNextEclipse(moonSystem, eclipseCache, arg.from, arg.minType)} :
         /\ eclipseCache' = CacheAfter(moonSystem, eclipseCache, r.visited)
         /\ ret' = IF r.found.absent THEN NullRecord
                   ELSE getEclipseInfo(moonSystem, eclipseCache, r.found.day)
    /\ UNCHANGED <<calendarData, config, worldTime, moonSystem, arg, chatHooks>>

FindPreviousEclipse ==
    /\ call = NoCall
    /\ arg.kind = "search"
    /\ call' = "findPreviousEclipse"
    /\ \E r \in {findPreviousEclipse(moonSystem, eclipseCache, arg.from, arg.minType)} :
         /\ eclipseCache' = CacheAfter(moonSystem, eclipseCache, r.visited)
         /\ ret' = IF r.found.absent THEN NullRecord
                   ELSE getEclipseInfo(moonSystem, eclipseCache, r.found.day)
    /\ UNCHANGED <<calendarData, config, worldTime, moonSystem, arg, chatHooks>>

\* findPreviousEclipse(next.absoluteDay, PARTIAL) on the record next that
\* findNextEclipse(d, PARTIAL) has just returned
FindPreviousOfNext ==
    /\ call = "findNextEclipse"
    /\ arg.minType = "partial"
    /\ ret # NullRecord
    /\ call' = "findPreviousOfNext"
    /\ \E r \in {findPreviousEclipse(moonSystem, eclipseCache, ret.absoluteDay, "partial")} :
         /\ eclipseCache' = CacheAfter(moonSystem, eclipseCache, r.visited)
         /\ ret' = [next |-> ret,
                    previous |-> IF r.found.absent THEN NullRecord
                                 ELSE getEclipseInfo(moonSystem, eclipseCache, r.found.day)]
    /\ UNCHANGED <<calendarData, config, worldTime, moonSystem, arg, chatHooks>>

NextEclipse ==
    GetEclipseInfo \/ FindNextEclipse \/ FindPreviousEclipse \/ FindPreviousOfNext

SpecEclipse == InitEclipse /\ [][NextEclipse]_vars

-----------------------------------------------------------------------------
(* A session of one eclipse calculator: any sequence of calls of its       *)
(* methods, each on the cache the calls before it have left                *)

SessionDays == {182, 2063}

SessionSearchDays == {183}

SessionMinTypes == {"partial", "total"}

SessionRanges == { <<0, 200>>, <<181, 184>> }

InitSession ==
    /\ calendarData = CalendarJson(DarkSunMonths, 2, 2, 2, DarkSunYearNames)
    /\ config = _computeCycleOffsets(calendarData.yearNames)
    /\ worldTime = 0
    /\ moonSystem = AthasianMoonSystem(NullRecord)
    /\ eclipseCache = EmptyCache
    /\ arg = NullRecord
    /\ call = NoCall
    /\ ret = NullRecord
    /\ chatHooks = NoHooks

SessionGetEclipseInfo ==
    \E t \in SessionDays :
        /\ arg' = [kind |-> "day", day |-> t]
        /\ call' = "getEclipseInfo"
        /\ ret' = getEclipseInfo(moonSystem, eclipseCache, t)
        /\ eclipseCache' = CacheAfter(moonSystem, eclipseCache, {t})
        /\ UNCHANGED <<calendarData, config, worldTime, moonSystem, chatHooks>>

SessionHasEclipse ==
    \E t \in SessionDays :
        /\ arg' = [kind |-> "day", day |-> t]
        /\ call' = "hasEclipse"
        /\ ret' = hasEclipse(moonSystem, eclipseCache, t)
        /\ eclipseCache' = CacheAfter(moonSystem, eclipseCache, {t})
        /\ UNCHANGED <<calendarData, config, worldTime, moonSystem, chatHooks>>

SessionFindNextEclipse ==
    \E d \in SessionSearchDays, m \in SessionMinTypes :
    \E r \in {findNextEclipse(moonSystem, eclipseCache, d, m)} :
        /\ arg' = [kind |-> "search", from |-> d, minType |-> m]
        /\ call' = "findNextEclipse"
        /\ eclipseCache' = CacheAfter(moonSystem, eclipseCache, r.visited)
        /\ ret' = IF r.found.absent THEN NullRecord
                  ELSE getEclipseInfo(moonSystem, eclipseCache, r.found.day)
        /\ UNCHANGED <<calendarData, config, worldTime, moonSystem, chatHooks>>

SessionFindPreviousEclipse ==
    \E d \in SessionSearchDays, m \in SessionMinTypes :
    \E r \in {findPreviousEclipse(moonSystem, eclipseCache, d, m)} :
        /\ arg' = [kind |-> "search", from |-> d, minType |-> m]
        /\ call' = "findPreviousEclipse"
        /\ eclipseCache' = CacheAfter(moonSystem, eclipseCache, r.visited)
        /\ ret' = IF r.found.absent THEN NullRecord
                  ELSE getEclipseInfo(moonSystem, eclipseCache, r.found.day)
        /\ UNCHANGED <<calendarData, config, worldTime, moonSystem, chatHooks>>

SessionFindEclipsesInRange ==
    \E range \in SessionRanges, m \in SessionMinTypes :
    \E r \in {findEclipsesInRange(moonSystem, eclipseCache, range[1], range[2], m)} :
        /\ arg' = [kind |-> "range", from |-> range[1], to |-> range[2], minType |-> m]
        /\ call' = "findEclipsesInRange"
        /\ eclipseCache' = CacheAfter(moonSystem, eclipseCache, r.visited)
        /\ ret' = r.eclipses
        /\ UNCHANGED <<calendarData, config, worldTime, moonSystem, chatHooks>>

SessionClearCache ==
    /\ arg' = [kind |-> "none"]
    /\ call' = "clearCache"
    /\ ret' = NullRecord
    /\ eclipseCache' = clearCache(eclipseCache)
    /\ UNCHANGED <<calendarData, config, worldTime, moonSystem, chatHooks>>

NextSession ==
    \/ SessionGetEclipseInfo
    \/ SessionHasEclipse
    \/ SessionFindNextEclipse
    \/ SessionFindPreviousEclipse
    \/ SessionFindEclipsesInRange
    \/ SessionClearCache

SpecSession == InitSession /\ [][NextSession]_vars

-----------------------------------------------------------------------------
(* Loading: the calendar, the moon system and the cycle offsets are built  *)
(* from calendar data that may be malformed                                *)

\* the months of ms with the offset of month i moved by shift
ShiftOffset(ms, i, shift) ==
    [j \in 1..Len(ms) |->
        IF j = i THEN [ms[j] EXCEPT !.dayOffset = ms[j].dayOffset + shift] ELSE ms[j]]

MonthTables ==
    { ExtendMonths(ShortMonths), ExtendMonths(DarkSunMonths) }
    \cup { ShiftOffset(ExtendMonths(ShortMonths), i, shift) :
               i \in 2..3, shift \in {0 - 1, 1} }

\* by how much the daysPerYear of the data differs from the sum of the months
YearLengthSlack == 0 - 2..2

CalendarJsons ==
    { [months |-> ms, hoursPerDay |-> 2, minutesPerHour |-> 2, secondsPerMinute |-> 2,
       daysPerYear |-> SumDays(ms, Len(ms)) + slack, yearNames |-> DarkSunYearNames] :
         ms \in MonthTables, slack \in YearLengthSlack }

\* year-name lists, with and without the anchor name
LoadNameLists ==
    NameLists \cup { [i \in 1..len |-> ToString(i)] : len \in NameListLengths \cup {0} }

LoadArgs ==
    { [kind |-> "calendarJson", json |-> j] : j \in CalendarJsons }
    \cup { [kind |-> "moonConfigs", moonConfigs |-> mc] : mc \in LoadMoonConfigs }
    \cup { [kind |-> "yearNames", names |-> n] : n \in LoadNameLists }

InitLoad ==
    /\ calendarData = CalendarJson(DarkSunMonths, 2, 2, 2, DarkSunYearNames)
    /\ config = _computeCycleOffsets(calendarData.yearNames)
    /\ worldTime = 0
    /\ moonSystem = AthasianMoonSystem(NullRecord)
    /\ eclipseCache = EmptyCache
    /\ arg \in LoadArgs
    /\ call = NoCall
    /\ ret = NullRecord
    /\ chatHooks = NoHooks

\* new DarkSunCalendar(calendarData)
NewDarkSunCalendar ==
    /\ call = NoCall
    /\ arg.kind = "calendarJson"
    /\ call' = "newDarkSunCalendar"
    /\ calendarData' = DarkSunCalendar(arg.json)
    /\ ret' = [threw |-> FALSE, value |-> calendarData']
    /\ UNCHANGED <<config, worldTime, moonSystem, eclipseCache, arg, chatHooks>>

\* _computeCycleOffsets() on the year names of the calendar data
ComputeCycleOffsets ==
    /\ call = NoCall
    /\ arg.kind = "yearNames"
    /\ call' = "computeCycleOffsets"
    /\ config' = _computeCycleOffsets(arg.names)
    /\ ret' = [threw |-> FALSE, value |-> config']
    /\ UNCHANGED <<calendarData, worldTime, moonSystem, eclipseCache, arg, chatHooks>>

NextLoad == NewDarkSunCalendar \/ NewAthasianMoonSystem \/ ComputeCycleOffsets

SpecLoad == InitLoad /\ [][NextLoad]_vars

-----------------------------------------------------------------------------
(* DarkSunChatCommands: the chat commands and the GM guard around them     *)

\* sendMessage(content) and sendErrorMessage(message) / createErrorResponse(message):
\* the response, an error one being the message set in red after "Error:"
sendMessage(content) == [error |-> FALSE, content |-> content]

sendErrorMessage(message) == [error |-> TRUE, content |-> message]

createErrorResponse(message) == [error |-> TRUE, content |-> message]

\* the commands registerCommands registers with gmOnly: true
GmOnlyCommands == {"advance", "set-date", "goto"}

\* parseInt on the tokens the commands are given: the number a token starts
\* with, NaN when it starts with none
IntTokens ==
    { <<"-1", 0 - 1>>, <<"0", 0>>, <<"1", 1>>, <<"2", 2>>, <<"3", 3>>, <<"1.5", 1>>,
      <<"12", 12>>, <<"13", 13>>, <<"30", 30>>, <<"31", 31>>, <<"77", 77>>,
      <<"78", 78>>, <<"150", 150>>, <<"375", 375>>, <<"376", 376>> }

NaN == [nan |-> TRUE]

parseInt(tok) ==
    IF \E p \in IntTokens : p[1] = tok
    THEN [nan |-> FALSE, value |-> (CHOOSE p \in IntTokens : p[1] = tok)[2]]
    ELSE NaN

\* window.setCalendarDate(year, month, day, hour, minute, second) with a
\* 1-based month: the instant handed to game.time.set, or the error thrown
setCalendarDate(cd, year, month, day, hour, minute, second) ==
    componentsToTime(cd, [year |-> year, month |-> month - 1, day |-> day,
                          hour |-> hour, minute |-> minute, second |-> second])

\* DSC.advanceMonths(n)
advanceMonths(cd, time, n) ==
    LET cur       == timeToComponents(cd, time)
        m0        == (IF cur.month = NoIndex THEN 0 ELSE cur.month) + 1 + n
        monthsLen == Len(cd.months)
        m         == ((m0 - 1) % monthsLen) + 1
        y         == cur.year + FloorDiv(m0 - 1, monthsLen)
        d         == Min({IF cur.day = NoIndex THEN 0 ELSE cur.day, cd.months[m].days})
    IN  setCalendarDate(cd, y, m, d, cur.hour, cur.minute, cur.second)

\* DSC.advanceYears(n)
advanceYears(cd, time, n) ==
    LET cur == timeToComponents(cd, time)
    IN  setCalendarDate(cd, cur.year + n,
                        (IF cur.month = NoIndex THEN 0 ELSE cur.month) + 1,
                        cur.day, cur.hour, cur.minute, cur.second)

\* the month loop of setDateFromTotalDays: the first month with
\* dayOffset <= dayOfYear <= dayOffset + days, month 0 when there is none
MonthOfDayOfYear(cd, dayOfYear) ==
    LET hits == { i \in 0..(Len(cd.months) - 1) :
                    /\ dayOfYear >= cd.months[i + 1].dayOffset
                    /\ dayOfYear <= cd.months[i + 1].dayOffset + cd.months[i + 1].days }
    IN  IF hits = {} THEN NoIndex ELSE Min(hits)

\* DSC.setDateFromTotalDays(totalDays, hour, minute, second)
RECURSIVE setDateFromTotalDays(_, _, _, _, _)
setDateFromTotalDays(cd, totalDays, hour, minute, second) ==
    LET daysPerYear == 375
        year        == FloorDiv(totalDays, daysPerYear) + 1
        dayOfYear   == JsRem(totalDays, daysPerYear)
        found       == MonthOfDayOfYear(cd, dayOfYear)
        month       == IF found = NoIndex THEN 0 ELSE found
        day         == IF found = NoIndex THEN dayOfYear
                       ELSE dayOfYear - cd.months[found + 1].dayOffset
    IN  IF dayOfYear = 0
        THEN setDateFromTotalDays(cd, totalDays - 1, hour, minute, second)
        ELSE setCalendarDate(cd, year, month + 1, day, hour, minute, second)

\* DSC.setDayOfYear(dayOfYear)
setDayOfYear(cd, time, dayOfYear) ==
    LET cur == timeToComponents(cd, time)
        abs == (cur.year - 1) * cd.daysPerYear + dayOfYear
    IN  setDateFromTotalDays(cd, abs, cur.hour, cur.minute, cur.second)

\* what a handler leaves behind: the world time and the response
Outcome(time, response) == [time |-> time, response |-> response]

\* the end of a handler that asked for the instant set: the time is committed
\* and the success message sent, or the error of the catch block is sent
Committed(time, set, success, failure) ==
    IF set.threw THEN Outcome(time, sendErrorMessage(failure))
    ELSE Outcome(set.value, sendMessage(success))

\* handleAdvanceCommand(args)
handleAdvanceCommand(cd, time, args) ==
    IF Len(args) < 2
    THEN Outcome(time, sendErrorMessage("Usage: /advance <amount> <unit>"))
    ELSE LET amount == parseInt(args[1])
             unit   == args[2]
             n      == amount.value
             done   == "Time Advanced"
         IN  IF amount.nan \/ n < 1
             THEN Outcome(time, sendErrorMessage("Amount must be a positive number"))
             ELSE IF unit \in {"minute", "minutes"}
             THEN Outcome(time + n * 60, sendMessage(done))
             ELSE IF unit \in {"hour", "hours"}
             THEN Outcome(time + n * 60 * 60, sendMessage(done))
             ELSE IF unit \in {"day", "days"}
             THEN Outcome(time + n * 24 * 60 * 60, sendMessage(done))
             ELSE IF unit \in {"week", "weeks"}
             THEN Outcome(time + n * 7 * 24 * 60 * 60, sendMessage(done))
             ELSE IF unit \in {"month", "months"}
             THEN Committed(time, advanceMonths(cd, time, n), done, "Error advancing time")
             ELSE IF unit \in {"year", "years"}
             THEN Committed(time, advanceYears(cd, time, n), done, "Error advancing time")
             ELSE Outcome(time, sendErrorMessage("Invalid unit"))

\* handleSetDateCommand(args)
handleSetDateCommand(cd, cfg, time, args) ==
    IF Len(args) < 4
    THEN Outcome(time, sendErrorMessage("Usage: /set-date <kings-age> <year> <month> <day>"))
    ELSE LET kingsAge     == parseInt(args[1])
             kingsAgeYear == parseInt(args[2])
             month        == parseInt(args[3])
             day          == parseInt(args[4])
         IN  IF kingsAge.nan \/ kingsAge.value < 1
             THEN Outcome(time, sendErrorMessage("King's Age must be a positive number"))
             ELSE IF kingsAgeYear.nan \/ kingsAgeYear.value < 1 \/ kingsAgeYear.value > 77
             THEN Outcome(time, sendErrorMessage("King's Age Year must be between 1 and 77"))
             ELSE IF month.nan \/ month.value < 1 \/ month.value > 12
             THEN Outcome(time, sendErrorMessage("Month must be between 1 and 12"))
             ELSE IF day.nan \/ day.value < 1 \/ day.value > 30
             THEN Outcome(time, sendErrorMessage("Day must be between 1 and 30"))
             ELSE Committed(time,
                            componentsToTime(cd,
                                KingsAgeComponents(cfg,
                                    [kingsAge |-> kingsAge.value,
                                     kingsAgeYear |-> kingsAgeYear.value,
                                     month |-> month.value, day |-> day.value])),
                            "Date Set", "Error setting date")

\* handleGotoCommand(args): the promise of setDayOfYear is not awaited, so the
\* success message is sent whether or not the instant is set
handleGotoCommand(cd, time, args) ==
    IF Len(args) < 1
    THEN Outcome(time, sendErrorMessage("Usage: /goto <day-of-year>"))
    ELSE LET dayOfYear == parseInt(args[1])
         IN  IF dayOfYear.nan \/ dayOfYear.value < 1 \/ dayOfYear.value > 375
             THEN Outcome(time, sendErrorMessage("Day of year must be between 1 and 375"))
             ELSE LET set == setDayOfYear(cd, time, dayOfYear.value)
                  IN  Outcome(IF set.threw THEN time ELSE set.value,
                              sendMessage("Jumped to Day"))

\* handleTestCommand(args)
\* (the message is args.join(' '), here of at most one argument)
handleTestCommand(time, args) ==
    Outcome(time, sendMessage(IF Len(args) > 0 THEN args[1] ELSE "Test successful!"))

\* handleCalendarCommand(args): the widget functions of DSC do nothing
handleCalendarCommand(time, args) ==
    LET action == IF Len(args) > 0 THEN args[1] ELSE "toggle"
    IN  Outcome(time, sendMessage(IF action = "show" THEN "Calendar widget shown"
                                  ELSE IF action = "hide" THEN "Calendar widget hidden"
                                  ELSE "Calendar widget toggled"))

\* config.callback(args) of the command name
Handler(cd, cfg, time, name, args) ==
    IF name = "advance" THEN handleAdvanceCommand(cd, time, args)
    ELSE IF name = "set-date" THEN handleSetDateCommand(cd, cfg, time, args)
    ELSE IF name = "goto" THEN handleGotoCommand(cd, time, args)
    ELSE IF name = "dsc-test" THEN handleTestCommand(time, args)
    ELSE handleCalendarCommand(time, args)

GmOnlyResponse == createErrorResponse("This command is only available to GMs.")

\* the callback of registerCommand with the handler called for every user
CommandCallback_noGuard(cd, cfg, time, name, args, isGM) ==
    Handler(cd, cfg, time, name, args)

\* the callback registerCommand hands to Chat Commander: the GM check, then
\* the handler
CommandCallback(cd, cfg, time, name, args, isGM) ==
    IF name \in GmOnlyCommands /\ ~isGM
    THEN Outcome(time, GmOnlyResponse)
    ELSE Handler(cd, cfg, time, name, args)

\* the first instant of King's Age 1, where a session of commands starts, and
\* how far past it the session is followed
ChatStart(cd, cfg) ==
    componentsToTime(cd, KingsAgeComponents(cfg, [kingsAge |-> 1, kingsAgeYear |-> 1,
                                                  month |-> 1, day |-> 1])).value

MaxChatTime == 1300000

AdvanceArgs ==
    { << >>, <<"1", "day">>, <<"2", "weeks">>, <<"1", "month">>,
      <<"1", "year">>, <<"0", "day">>, <<"x", "day">>, <<"1", "fortnight">> }

SetDateArgs ==
    { << >>, <<"1", "1", "1", "1">>, <<"1", "1", "12", "30">>, <<"1", "1", "3", "2">>,
      <<"0", "1", "1", "1">>, <<"1", "78", "1", "1">>, <<"1", "1", "13", "1">>,
      <<"1", "1", "1", "31">>, <<"x", "1", "1", "1">> }

GotoArgs == { << >>, <<"1">>, <<"31">>, <<"150">>, <<"375">>, <<"0">>, <<"376">>, <<"x">> }

OpenArgs == { << >>, <<"show">>, <<"hide">> }

InitChat ==
    /\ calendarData = CalendarJson(DarkSunMonths, 2, 2, 2, DarkSunYearNames)
    /\ config = _computeCycleOffsets(calendarData.yearNames)
    /\ worldTime = ChatStart(calendarData, config)
    /\ moonSystem = AthasianMoonSystem(NullRecord)
    /\ eclipseCache = EmptyCache
    /\ arg = NullRecord
    /\ call = NoCall
    /\ ret = NullRecord
    /\ chatHooks = NoHooks

\* a user types /name args: the registered callback runs
ChatCommand(name, args, isGM) ==
    /\ \E out \in {CommandCallback(calendarData, config, worldTime, name, args, isGM)} :
          /\ out.time - ChatStart(calendarData, config) \in 0..MaxChatTime
          /\ worldTime' = out.time
          /\ ret' = out.response
    /\ call' = name
    /\ arg' = [args |-> args, isGM |-> isGM]
    /\ UNCHANGED <<calendarData, config, moonSystem, eclipseCache, chatHooks>>

ChatAdvance == \E args \in AdvanceArgs, isGM \in BOOLEAN : ChatCommand("advance", args, isGM)

ChatSetDate == \E args \in SetDateArgs, isGM \in BOOLEAN : ChatCommand("set-date", args, isGM)

ChatGoto == \E args \in GotoArgs, isGM \in BOOLEAN : ChatCommand("goto", args, isGM)

ChatTest == \E args \in OpenArgs, isGM \in BOOLEAN : ChatCommand("dsc-test", args, isGM)

ChatCalendar == \E args \in OpenArgs, isGM \in BOOLEAN : ChatCommand("calendar", args, isGM)

NextChat == ChatAdvance \/ ChatSetDate \/ ChatGoto \/ ChatTest \/ ChatCalendar

SpecChat == InitChat /\ [][NextChat]_vars

-----------------------------------------------------------------------------
(* The DSC date helpers as a state machine: the world time stands at some  *)
(* date, and one helper is called                                          *)

\* DSC.getCurrentDate(): year, 1-based month and day of the world time
getCurrentDate(cd, time) ==
    LET c == timeToComponents(cd, time)
    IN  [year |-> c.year, month |-> (IF c.month = NoIndex THEN 0 ELSE c.month) + 1,
         day |-> c.day, hour |-> c.hour, minute |-> c.minute, second |-> c.second]

\* DSC.dateToAbsoluteDays(date) of a date whose month is in the table
dateToAbsoluteDays(cd, date) ==
    (date.year - 1) * cd.daysPerYear + cd.months[date.month].dayOffset + date.day

\* DSC.advanceDays(n): the world time after game.time.advance(n * 24 * 60 * 60)
advanceDays(time, n) == time + n * 24 * 60 * 60

\* the calendar with the time radix cut down, and the one with days of 24
\* hours of 60 minutes of 60 seconds
DscCalendars ==
    { CalendarJson(DarkSunMonths, 2, 2, 2, DarkSunYearNames),
      CalendarJson(DarkSunMonths, 24, 60, 60, DarkSunYearNames) }

\* the dates the world time stands at: the first and the last day of every
\* month at the first and the last second of the day; on the calendar with
\* full days, three days of the first month
StartDates(cd) ==
    IF cd.hoursPerDay = 2
    THEN { [year |-> y, month |-> m, day |-> d, hour |-> h, minute |-> h, second |-> h] :
             y \in Years, m \in 0..(Len(cd.months) - 1), d \in {1, 5, 30}, h \in {0, 1} }
    ELSE { [year |-> 1, month |-> 0, day |-> d, hour |-> t[1], minute |-> t[2],
            second |-> t[3]] :
             d \in {1, 2, 20}, t \in { <<0, 0, 0>>, <<12, 30, 15>>, <<23, 59, 59>> } }

\* the largest number of days advanceDays is asked for
MaxAdvance == 3

DscArgs(cd) ==
    { [kind |-> "advance", n |-> n] : n \in 1..MaxAdvance }
    \cup { [kind |-> "restore"] }
    \cup (IF cd.hoursPerDay = 2
          THEN { [kind |-> "dayOfYear", dayOfYear |-> n] : n \in 1..375 }
          ELSE {})

InitDsc ==
    /\ calendarData \in DscCalendars
    /\ config = _computeCycleOffsets(calendarData.yearNames)
    /\ \E c \in { d \in StartDates(calendarData) : InRange(calendarData, d) } :
          worldTime = componentsToTime(calendarData, c).value
    /\ moonSystem = AthasianMoonSystem(NullRecord)
    /\ eclipseCache = EmptyCache
    /\ arg \in DscArgs(calendarData)
    /\ call = NoCall
    /\ ret = NullRecord
    /\ chatHooks = NoHooks

\* DSC.setDayOfYear(n), as /goto calls it
SetDayOfYear ==
    /\ call = NoCall
    /\ arg.kind = "dayOfYear"
    /\ call' = "setDayOfYear"
    /\ \E set \in {setDayOfYear(calendarData, worldTime, arg.dayOfYear)} :
          /\ worldTime' = IF set.threw THEN worldTime ELSE set.value
          /\ ret' = set
    /\ UNCHANGED <<calendarData, config, moonSystem, eclipseCache, arg, chatHooks>>

\* DSC.setDateFromTotalDays(DSC.dateToAbsoluteDays(DSC.getCurrentDate()),
\* hour, minute, second) with the time of day of the current date
RestoreDate ==
    /\ call = NoCall
    /\ arg.kind = "restore"
    /\ call' = "setDateFromTotalDays"
    /\ \E date \in {getCurrentDate(calendarData, worldTime)} :
       \E set \in {setDateFromTotalDays(calendarData,
                                         dateToAbsoluteDays(calendarData, date),
                                         date.hour, date.minute, date.second)} :
          /\ worldTime' = IF set.threw THEN worldTime ELSE set.value
          /\ ret' = set
    /\ UNCHANGED <<calendarData, config, moonSystem, eclipseCache, arg, chatHooks>>

\* DSC.advanceDays(n)
AdvanceDays ==
    /\ call = NoCall
    /\ arg.kind = "advance"
    /\ call' = "advanceDays"
    /\ worldTime' = advanceDays(worldTime, arg.n)
    /\ ret' = [value |-> TRUE]
    /\ UNCHANGED <<calendarData, config, moonSystem, eclipseCache, arg, chatHooks>>

NextDsc == SetDayOfYear \/ RestoreDate \/ AdvanceDays

SpecDsc == InitDsc /\ [][NextDsc]_vars

-----------------------------------------------------------------------------
(* The chat-command hooks as a state machine: 'ready' fires once, Chat     *)
(* Commander may be there before it or come later, and 'chatCommandsReady' *)
(* fires any number of times                                               *)

MaxFirings == 5

\* registerCommands(commands): every name is passed to commands.register
registerCommands(h) ==
    [h EXCEPT !.registered = [n \in CommandNames |-> h.registered[n] + 1]]

\* initialize() of instance i: nothing when it is initialized; else the
\* listener of 'chatCommandsReady' is added and, when game.chatCommands has
\* register, the commands are registered at once
initialize(h, i) ==
    IF i \in h.initialized THEN h
    ELSE TheOnly({ IF h.chatCommander
                   THEN [registerCommands(listening) EXCEPT
                            !.initialized = listening.initialized \cup {i}]
                   ELSE listening :
                   listening \in {[h EXCEPT !.listeners = h.listeners \cup {i}]} })

\* darkSunChatCommands = new DarkSunChatCommands(); darkSunChatCommands.initialize()
NewDarkSunChatCommands(h) ==
    initialize([h EXCEPT !.instances = h.instances + 1,
                         !.darkSunChatCommands = h.instances + 1],
               h.instances + 1)

\* Hooks.callAll('dark-sun-calendar:ready'): the handler registered with
\* Hooks.once runs if it has not run yet
DarkSunCalendarReady(h) ==
    IF h.onceDscReady THEN NewDarkSunChatCommands([h EXCEPT !.onceDscReady = FALSE])
    ELSE h

\* what the 'ready' handler of the calendar does: with the moon engine loaded
\* window.DSC is created and 'dark-sun-calendar:ready' is fired on the spot; a
\* build that creates window.DSC without firing the hook; or no DSC at all
Engines == {"fires", "silent", "failed"}

EngineReady(h, engine) ==
    IF engine = "fires" THEN DarkSunCalendarReady([h EXCEPT !.dscReady = TRUE])
    ELSE IF engine = "silent" THEN [h EXCEPT !.dscReady = TRUE]
    ELSE h

InitHooks ==
    /\ calendarData = CalendarJson(DarkSunMonths, 2, 2, 2, DarkSunYearNames)
    /\ config = _computeCycleOffsets(calendarData.yearNames)
    /\ worldTime = 0
    /\ moonSystem = AthasianMoonSystem(NullRecord)
    /\ eclipseCache = EmptyCache
    /\ arg = NullRecord
    /\ call = NoCall
    /\ ret = NullRecord
    /\ chatHooks \in { [NoHooks EXCEPT !.chatCommander = there] : there \in BOOLEAN }

\* the 'ready' hook: the calendar's handler, and the handler that sets the
\* timer of the delayed check
Ready ==
    \E engine \in Engines :
        /\ chatHooks.timer = "unset"
        /\ chatHooks' = [EngineReady(chatHooks, engine) EXCEPT !.timer = "pending"]
        /\ call' = "ready"
        /\ arg' = [kind |-> "engine", engine |-> engine]
        /\ UNCHANGED <<calendarData, config, worldTime, moonSystem, eclipseCache, ret>>

\* the delayed check: an instance is created when DSC is ready and
\* darkSunChatCommands is still undefined
DelayedCheck ==
    /\ chatHooks.timer = "pending"
    /\ chatHooks' = TheOnly({ IF h.dscReady /\ h.darkSunChatCommands = 0
                              THEN NewDarkSunChatCommands(h) ELSE h :
                              h \in {[chatHooks EXCEPT !.timer = "done"]} })
    /\ call' = "delayedCheck"
    /\ arg' = NullRecord
    /\ UNCHANGED <<calendarData, config, worldTime, moonSystem, eclipseCache, ret>>

\* the listeners of 'chatCommandsReady', one after the other: each registers
\* the commands and marks its instance initialized
RECURSIVE RunListeners(_, _)
RunListeners(h, todo) ==
    IF todo = {} THEN h
    ELSE TheOnly({ RunListeners([registerCommands(h) EXCEPT
                                    !.initialized = h.initialized \cup {i}],
                                todo \ {i}) :
                   i \in {Min(todo)} })

\* Hooks.callAll("chatCommandsReady", game.chatCommands) by Chat Commander
ChatCommandsReady ==
    /\ chatHooks.fired < MaxFirings
    /\ chatHooks' = RunListeners([chatHooks EXCEPT !.chatCommander = TRUE,
                                                   !.fired = chatHooks.fired + 1],
                                 chatHooks.listeners)
    /\ call' = "chatCommandsReady"
    /\ arg' = NullRecord
    /\ UNCHANGED <<calendarData, config, worldTime, moonSystem, eclipseCache, ret>>

NextHooks == Ready \/ DelayedCheck \/ ChatCommandsReady

SpecHooks == InitHooks /\ [][NextHooks]_vars

-----------------------------------------------------------------------------
(* Claims about the calendar clock *)

\* the 0-based day of the year of an instant
DayOfYear0(cd, time) == ((time \div 1000) \div secondsPerDay(cd)) % cd.daysPerYear

\* C1: round trip. For every in-range DateComponents c, reading back the
\* instant componentsToTime(c) with timeToComponents gives c in every field.
C1_RoundTrip ==
    (call = "setCalendarDate" /\ InRange(calendarData, arg.c))
        => /\ ~ret.threw
           /\ ret.actualComponents = WithMonthFields(calendarData, arg.c)

\* the round trip of the last second of the last day of an intercalary month
\* in the second year
C1_Witness ==
    /\ call = "setCalendarDate"
    /\ InRange(calendarData, arg.c)
    /\ arg.c.year = 2
    /\ calendarData.months[arg.c.month + 1].intercalary
    /\ arg.c.day = calendarData.months[arg.c.month + 1].days
    /\ arg.c.hour = calendarData.hoursPerDay - 1
    /\ arg.c.second = calendarData.secondsPerMinute - 1
    /\ ret.actualComponents.monthName = calendarData.months[arg.c.month + 1].name

\* C2: half-open month lookup. timeToComponents reports the one month i with
\* dayOffset_i <= dayOfYear0 < dayOffset_i + days_i, the day counted from 1
\* within it; a day index equal to dayOffset_i + days_i is day 1 of month
\* i + 1; the month is never null.
C2_HalfOpenLookup ==
    call = "timeToComponents" =>
        LET cd   == calendarData
            doy0 == DayOfYear0(cd, arg.time)
            n    == Len(cd.months)
        IN  /\ ret.month \in 0..(n - 1)
            /\ cd.months[ret.month + 1].dayOffset <= doy0
            /\ doy0 < cd.months[ret.month + 1].dayOffset + cd.months[ret.month + 1].days
            /\ ret.day = doy0 - cd.months[ret.month + 1].dayOffset + 1
            /\ ret.day \in 1..cd.months[ret.month + 1].days
            /\ \A j \in 0..(n - 1) :
                  (cd.months[j + 1].dayOffset <= doy0
                   /\ doy0 < cd.months[j + 1].dayOffset + cd.months[j + 1].days)
                      => j = ret.month
            /\ \A j \in 0..(n - 2) :
                  doy0 = cd.months[j + 1].dayOffset + cd.months[j + 1].days
                      => (ret.month = j + 1 /\ ret.day = 1)

\* an instant on the day whose index is the end of a month's interval
C2_Witness ==
    /\ call = "timeToComponents"
    /\ \E j \in 0..(Len(calendarData.months) - 2) :
          /\ DayOfYear0(calendarData, arg.time)
                = calendarData.months[j + 1].dayOffset + calendarData.months[j + 1].days
          /\ ret.month = j + 1
          /\ ret.day = 1
    /\ arg.time % 1000 = 999
    /\ ret.year = 2

\* C3: componentsToTime returns no instant for out-of-range components: it
\* fails when the month index is outside the month table and when the day is
\* outside [1, month.length].
C3_OutOfRangeFails ==
    (call = "componentsToTime" /\ ~InRange(calendarData, arg.c)) => ret.threw

\* C3, through /set-date: a command whose day is outside the month it names
\* does not move the calendar into another month.
C3_SetDateStaysInMonth ==
    (call = "handleSetDateCommand" /\ ret.error = "none")
        => /\ ret.currentDate.month = arg.a.month - 1
           /\ ret.currentDate.day = arg.a.day

-----------------------------------------------------------------------------
(* Claims about the King's Age cycle *)

\* C4: anchor consistency. With the offsets computed from the anchor and a
\* year-name list that contains the anchor name, year 14656 is King's Age 190,
\* year 27, named "Wind's Reverance"; the year in the age is in 1..77 and the
\* pair (age, year in age) advances like a base-77 counter.
C4_AnchorConsistency ==
    call = "formatDarkSunDate" =>
        LET ka1  == getKingsAge(config, arg.year + 1)
            kay1 == getKingsAgeYear(config, arg.year + 1)
        IN  /\ arg.year = AnchorYear =>
                  /\ ret.ka = AnchorKingsAge
                  /\ ret.kay = AnchorYearInAge
                  /\ ret.name = AnchorYearName
            /\ ret.kay \in 1..77
            /\ IF ret.kay = 77
               THEN kay1 = 1 /\ ka1 = ret.ka + 1
               ELSE kay1 = ret.kay + 1 /\ ka1 = ret.ka

\* the King's Age part of C4 alone, which the code satisfies
C4_KingsAgePart ==
    call = "formatDarkSunDate" =>
        LET ka1  == getKingsAge(config, arg.year + 1)
            kay1 == getKingsAgeYear(config, arg.year + 1)
        IN  /\ arg.year = AnchorYear =>
                  (ret.ka = AnchorKingsAge /\ ret.kay = AnchorYearInAge)
            /\ ret.kay \in 1..77
            /\ IF ret.kay = 77
               THEN kay1 = 1 /\ ka1 = ret.ka + 1
               ELSE kay1 = ret.kay + 1 /\ ka1 = ret.ka

-----------------------------------------------------------------------------
(* Claims about the moon phase calculators *)

\* C5: isFull(t, tol) holds exactly when phase(t) is within tol of 0.5, and
\* isNew(t, tol) exactly when phase(t) is within tol of 0.0 cyclically; for
\* no day and tolerance up to 0.05 do both hold.
C5_FullAtHalfNewAtZero ==
    LET moon  == TheMoon(moonSystem, arg.moon)
        phase == getPhase(moon, arg.day)
    IN  /\ call = "isFull" =>
              /\ ret.value <=> (Abs(phase - (PhaseDen \div 2)) < arg.tolerance)
              /\ ~(ret.value /\ isNew(moon, arg.day, arg.tolerance))
        /\ call = "isNew" =>
              /\ ret.value <=> (phase < arg.tolerance \/ phase > PhaseDen - arg.tolerance)
              /\ ~(ret.value /\ isFull(moon, arg.day, arg.tolerance))

-----------------------------------------------------------------------------
(* Claims about the eclipse calculator *)

\* the phase is within tol of the full-moon phase 0.5
NearFull(moon, t, tol) == Abs(getPhase(moon, t) - (PhaseDen \div 2)) < tol

BothNearFull(t, tol) ==
    NearFull(moonSystem.ral, t, tol) /\ NearFull(moonSystem.guthay, t, tol)

\* C6: getEclipseInfo(t).type is GRAND iff both moons are within 0.005 of
\* phase 0.5, TOTAL iff both are within 0.02 but not both within 0.005, PARTIAL
\* iff both are within 0.05 but not both within 0.02, and NONE otherwise.
C6_BandsAroundFull ==
    call = "getEclipseInfo" =>
        ret.type = IF BothNearFull(arg.day, ToleranceGrand) THEN "grand"
                   ELSE IF BothNearFull(arg.day, ToleranceTotal) THEN "total"
                   ELSE IF BothNearFull(arg.day, TolerancePartial) THEN "partial"
                   ELSE "none"

\* NONE < PARTIAL < TOTAL < GRAND
Severity(type) ==
    IF type = "grand" THEN 3
    ELSE IF type = "total" THEN 2
    ELSE IF type = "partial" THEN 1
    ELSE 0

SeverityOn(t) == Severity(EclipseTypeOf(moonSystem, t))

SearchSpan == 2 * moonSystem.eclipseCycle

\* ret is null when Q is empty, and otherwise the record of the smallest day
\* of Q (forward) or of its largest day
IsFirstOf(Q, forward) ==
    IF Q = {} THEN ret = NullRecord
    ELSE /\ ret # NullRecord
         /\ ret.absoluteDay \in Q
         /\ ret.type = EclipseTypeOf(moonSystem, ret.absoluteDay)
         /\ \A t \in Q : IF forward THEN ret.absoluteDay <= t
                                      ELSE ret.absoluteDay >= t

\* C7 as stated: findNextEclipse(d, m) returns the record of the smallest day
\* in (d, d + 2*eclipseCycle] whose severity is at least m, findPreviousEclipse
\* (d, m) that of the largest such day in [d - 2*eclipseCycle, d), and each
\* returns null exactly when its window has no such day, for every d and each
\* of the four severities NONE, PARTIAL, TOTAL and GRAND.
C7_SearchByStatedWindow ==
    /\ call = "findNextEclipse" =>
          LET Q == { t \in (arg.from + 1)..(arg.from + SearchSpan) :
                       SeverityOn(t) >= Severity(arg.minType) }
          IN  IsFirstOf(Q, TRUE)
    /\ call = "findPreviousEclipse" =>
          LET Q == { t \in (arg.from - SearchSpan)..(arg.from - 1) :
                       SeverityOn(t) >= Severity(arg.minType) }
          IN  IsFirstOf(Q, FALSE)

\* C7, amended: only days that have an eclipse qualify, so that NONE selects
\* the same days as PARTIAL, and the window of findPreviousEclipse does not
\* reach below day 0: it is [max(0, d - 2*eclipseCycle), d).
C7_SearchByScannedWindow ==
    /\ call = "findNextEclipse" =>
          LET Q == { t \in (arg.from + 1)..(arg.from + SearchSpan) :
                       SeverityOn(t) >= Max({1, Severity(arg.minType)}) }
          IN  IsFirstOf(Q, TRUE)
    /\ call = "findPreviousEclipse" =>
          LET Q == { t \in Max({0, arg.from - SearchSpan})..(arg.from - 1) :
                       SeverityOn(t) >= Max({1, Severity(arg.minType)}) }
          IN  IsFirstOf(Q, FALSE)

\* a search for a total eclipse that passes over a partial one on its way
C7_Witness ==
    /\ call = "findNextEclipse"
    /\ arg.minType = "total"
    /\ ret # NullRecord
    /\ \E t \in (arg.from + 1)..(ret.absoluteDay - 1) : SeverityOn(t) = 1

\* C8 as stated: when findNextEclipse(d, PARTIAL) returns a record on day n,
\* findPreviousEclipse(n, PARTIAL) returns a record on a day p with p <= d < n.
C8_AdjacencyAlways ==
    call = "findPreviousOfNext" =>
        /\ ret.previous # NullRecord
        /\ ret.previous.absoluteDay <= arg.from
        /\ arg.from < ret.next.absoluteDay

\* C8, amended: findPreviousEclipse(n, PARTIAL) returns a record on a day p
\* with p <= d < n when some day of [max(0, n - 2*eclipseCycle), n) has an
\* eclipse, and null when none has.
C8_AdjacencyFromDayZero ==
    call = "findPreviousOfNext" =>
        LET n == ret.next.absoluteDay
        IN  /\ arg.from < n
            /\ IF \E t \in Max({0, n - SearchSpan})..(n - 1) : SeverityOn(t) >= 1
               THEN /\ ret.previous # NullRecord
                    /\ ret.previous.absoluteDay <= arg.from
               ELSE ret.previous = NullRecord

C8_Witness ==
    /\ call = "findPreviousOfNext"
    /\ ret.previous # NullRecord
    /\ ret.previous.absoluteDay < arg.from
    /\ ret.previous.absoluteDay >= 0

\* C10: on every day t, getEclipseInfo(t).magnitude is the product of the two
\* illuminations of the same record, each over 100, rounded to 3 decimals,
\* whatever the type of the record, GRAND included.
C10_MagnitudeIsProduct ==
    call = "getEclipseInfo" =>
        ret.magnitude = (ret.ralIllumination * ret.guthayIllumination + 5) \div 10

\* C10 on the days with a partial or total eclipse
C10_MagnitudeOfPartialAndTotal ==
    (call = "getEclipseInfo" /\ ret.type \in {"partial", "total"}) =>
        ret.magnitude = (ret.ralIllumination * ret.guthayIllumination + 5) \div 10

EntriesKept ==
    \A d \in DOMAIN eclipseCache :
        d \in DOMAIN eclipseCache' /\ eclipseCache'[d] = eclipseCache[d]

\* C12 as stated: over any sequence of getEclipseInfo, findNextEclipse,
\* findPreviousEclipse, hasEclipse, findEclipsesInRange and clearCache calls,
\* an entry of eclipseCache is never removed or replaced.
C12_CacheOnlyGrows == [][EntriesKept]_vars

\* C12, amended: every call other than clearCache keeps every entry of
\* eclipseCache as it is; clearCache removes them all.
C12_CacheGrowsUntilCleared ==
    [][IF call' = "clearCache" THEN eclipseCache' = EmptyCache ELSE EntriesKept]_vars

\* a search has added the days it scanned to a cache that had entries
C12_Witness ==
    /\ call = "findNextEclipse"
    /\ {0, 2063, 184, 313} \subseteq DOMAIN eclipseCache

-----------------------------------------------------------------------------
(* Claims about the next full and new moon *)

\* the exact number of days, in PhaseDen-ths, from a day to the next time the
\* phase is target, counted in (0, period]
DaysToCrossing(moon, t, target) ==
    LET ahead == (target - getPhase(moon, t)) % PhaseDen
    IN  IF ahead = 0 THEN moon.period * PhaseDen ELSE ahead * moon.period

\* C13: getNextFullMoon(d) = d + ceil(r), r in (0, period] being the exact
\* number of days from day d to the next time the phase is 0.5, for every day
\* d and both periods.
C13_NextFullIsNextCrossing ==
    call = "getNextFullMoon" =>
        ret.value = arg.day + CeilDays(DaysToCrossing(TheMoon(moonSystem, arg.moon),
                                                      arg.day, PhaseDen \div 2))

\* C14: with offset 0, getNextNewMoon(d) is the smallest day after d whose
\* cycle day is 0, for every day d and both periods.
C14_NextNewIsNextCycleStart ==
    (call = "getNextNewMoon" /\ TheMoon(moonSystem, arg.moon).offset = 0) =>
        /\ ret.value > arg.day
        /\ getCycleDay(TheMoon(moonSystem, arg.moon), ret.value) = 0
        /\ \A t \in (arg.day + 1)..(ret.value - 1) :
              getCycleDay(TheMoon(moonSystem, arg.moon), t) # 0

-----------------------------------------------------------------------------
(* Claims about the eclipse cycle and the ranges of the moon quantities *)

\* C15: eclipseCycle is LCM(33, 125) = 4125; a day and the day eclipseCycle
\* later have the same phase of each moon and the same eclipse type; and no
\* smaller positive number of days brings both moons back to their phases.
C15_EclipseCycleIsLeastPeriod ==
    call = "getMoonData" =>
        LET moon  == TheMoon(moonSystem, arg.moon)
            cycle == moonSystem.eclipseCycle
        IN  /\ cycle = 33 * 125
            /\ getPhase(moon, arg.day + cycle) = ret.phase
            /\ getPhase(moon, arg.day - cycle) = ret.phase
            /\ EclipseTypeOf(moonSystem, arg.day + cycle)
                  = EclipseTypeOf(moonSystem, arg.day)
            /\ arg.day = 0 =>
                  \A n \in 1..(cycle - 1) :
                      \/ getPhase(moonSystem.ral, n) # getPhase(moonSystem.ral, 0)
                      \/ getPhase(moonSystem.guthay, n) # getPhase(moonSystem.guthay, 0)

\* a day on which the moon is part way through its cycle
C15_Witness ==
    /\ call = "getMoonData"
    /\ arg.day = 0
    /\ ret.phase # 0
    /\ getPhase(TheMoon(moonSystem, arg.moon), moonSystem.eclipseCycle) = ret.phase

\* the distance of a phase from target, taken round the cycle
CyclicDistance(phase, target) ==
    LET diff == Abs(phase - target)
    IN  IF diff > PhaseDen - diff THEN PhaseDen - diff ELSE diff

RangesHold ==
    /\ getCycleDay(TheMoon(moonSystem, arg.moon), arg.day)
          \in 0..(TheMoon(moonSystem, arg.moon).period - 1)
    /\ ret.phase \in 0..(PhaseDen - 1)
    /\ ret.illumination \in 0..100

-----------------------------------------------------------------------------
(* Claims about the day coordinate *)

\* C17: getTotalCalendarDay is strictly increasing in (year, dayOfYear) taken
\* in lexicographic order, for day-of-year values in 1..daysPerYear, and the
\* first day of a year is one more than the last day of the year before.
C17_TotalDayStrictlyIncreasing ==
    call = "getTotalCalendarDay" =>
        /\ \A y2 \in YearDayYears, d2 \in 1..calendarData.daysPerYear :
              (arg.year < y2 \/ (arg.year = y2 /\ arg.dayOfYear < d2)) =>
                  ret.value < getTotalCalendarDay(calendarData, y2, d2)
        /\ arg.dayOfYear = calendarData.daysPerYear =>
              getTotalCalendarDay(calendarData, arg.year + 1, 1) - ret.value = 1

\* the last day of a year
C17_Witness ==
    /\ call = "getTotalCalendarDay"
    /\ arg.dayOfYear = calendarData.daysPerYear
    /\ arg.year < MaxYear
    /\ ret.value = arg.year * calendarData.daysPerYear

-----------------------------------------------------------------------------
(* Claims about construction *)

\* C18: constructing a MoonPhaseCalculator throws when the period is not
\* positive or not a whole number and when the configured offset is outside
\* [0, 1), and succeeds for every positive whole period and offset in [0, 1).
C18_ConstructorValidates ==
    call = "construct" =>
        LET positiveWhole == \E k \in 1..arg.period.n : k * arg.period.d = arg.period.n
            offsetInRange == \/ arg.moonConfig = NullRecord
                             \/ arg.moonConfig.offset \in 0..(PhaseDen - 1)
        IN  /\ ret.threw <=> ~(positiveWhole /\ offsetInRange)
            /\ ~ret.threw => ret.value.period * arg.period.d = arg.period.n

\* a whole period with an offset of 1, the first offset that is refused
C18_Witness ==
    /\ call = "construct"
    /\ arg.period = [n |-> 66, d |-> 2]
    /\ arg.moonConfig # NullRecord
    /\ arg.moonConfig.offset = PhaseDen
    /\ ret.threw

\* the offsets of a month table are contiguous from 0 and its months sum to
\* daysPerYear
WellFormedTable(json) ==
    /\ \A i \in 1..Len(json.months) :
          json.months[i].dayOffset = SumDays(json.months, i - 1)
    /\ SumDays(json.months, Len(json.months)) = json.daysPerYear

HasReferences(moonConfigs) ==
    /\ moonConfigs # NullRecord
    /\ moonConfigs.Ral.firstNewMoon # NullRecord
    /\ moonConfigs.Guthay.firstNewMoon # NullRecord

\* C19: a month table whose offsets are not contiguous or do not sum to
\* daysPerYear is rejected when the calendar is constructed; a moon
\* configuration without its reference new moon is rejected, not replaced by
\* 17 / 63; an anchor name absent from the year names is rejected, not
\* replaced by a name offset of 0.
C19_MalformedSchemaRejected ==
    /\ (call = "newDarkSunCalendar" /\ ~WellFormedTable(arg.json)) => ret.threw
    /\ (call = "newAthasianMoonSystem" /\ ~HasReferences(arg.moonConfigs)) => ret.threw
    /\ (call = "computeCycleOffsets"
          /\ \A i \in 1..Len(arg.names) : arg.names[i] # AnchorYearName) => ret.threw

\* C20: whenever a user who is not a GM issues a chat command, the world time
\* stays what it was, and a command registered with gmOnly (advance, set-date,
\* goto) answers with the GM-only error response instead of its handler's.
C20_NonGmNeverChangesTime ==
    [][(arg' # NullRecord /\ ~arg'.isGM)
          => /\ worldTime' = worldTime
             /\ call' \in GmOnlyCommands => ret' = GmOnlyResponse]_vars

\* after a GM has moved the time, a non-GM asks to advance it by a day and is
\* refused
C20_Witness ==
    /\ call = "advance"
    /\ arg.args = <<"1", "day">>
    /\ ~arg.isGM
    /\ ret = GmOnlyResponse
    /\ worldTime > ChatStart(calendarData, config)

-----------------------------------------------------------------------------
(* Claims about the day of the year and the day coordinate *)

\* the valid (month, day) pairs of a calendar
ValidMonthDays(cd) ==
    { <<m, d>> \in (0..(Len(cd.months) - 1)) \X (1..30) : d <= cd.months[m + 1].days }

\* C21: every month's dayOffset is the sum of the lengths of the months before
\* it; getDayOfYear(c) = dayOffset + c.day; over the valid (month, day) pairs
\* it takes every value of 1..daysPerYear once (it lies in that range, no
\* other valid pair has the same value, and there are daysPerYear pairs); in
\* the 375-day table day 30 of the 4th month is day 120 of the year.
C21_DayOfYearBijection ==
    /\ \A i \in 1..Len(calendarData.months) :
          calendarData.months[i].dayOffset = SumDays(calendarData.months, i - 1)
    /\ SumDays(calendarData.months, Len(calendarData.months)) = calendarData.daysPerYear
    /\ (call = "getDayOfYear" /\ InRange(calendarData, arg.c)) =>
          /\ ~ret.threw
          /\ ret.value = calendarData.months[arg.c.month + 1].dayOffset + arg.c.day
          /\ ret.value \in 1..calendarData.daysPerYear
          /\ \A p \in ValidMonthDays(calendarData) :
                p # <<arg.c.month, arg.c.day>> =>
                    getDayOfYear(calendarData, [month |-> p[1], day |-> p[2]]).value
                        # ret.value
          /\ (Len(calendarData.months) = 15 /\ arg.c.month = 3 /\ arg.c.day = 30)
                => ret.value = 120

\* day 30 of the 4th month of the 375-day table
C21_Witness ==
    /\ call = "getDayOfYear"
    /\ calendarData.daysPerYear = 375
    /\ arg.c.month = 3
    /\ arg.c.day = 30
    /\ ret.value = 120

-----------------------------------------------------------------------------
(* Claims about phase names and rise and set times *)

PhaseNames ==
    << "New", "Waxing Crescent", "First Quarter", "Waxing Gibbous",
       "Full", "Waning Gibbous", "Last Quarter", "Waning Crescent" >>

\* C22: on every day the phase name is the k-th of the eight names, k counted
\* from 0, with k = floor(8 * cycleDay / period), for the periods 33 and 125.
C22_PhaseNameByEighths ==
    call = "getPhaseName" =>
        LET moon == TheMoon(moonSystem, arg.moon)
            k    == (8 * getCycleDay(moon, arg.day)) \div moon.period
        IN  /\ k \in 0..7
            /\ ret.value = PhaseNames[k + 1]

\* Ral on cycle day 4, below the edge 33/8 = 4.125, is still New
C22_Witness ==
    /\ call = "getPhaseName"
    /\ arg.moon = "ral"
    /\ getCycleDay(moonSystem.ral, arg.day) = 4
    /\ arg.day < moonSystem.ral.firstNewMoonDay
    /\ ret.value = "New"

\* (h + 24 * phase) mod 24 rounded to hundredths of an hour, halves upwards
\* (24 * phase is 4 * phase / (PhaseDen / 600) hundredths of an hour)
HourOfPhase(h, phase) ==
    LET whole == (4 * phase) \div (PhaseDen \div 600)
        rest  == (4 * phase) % (PhaseDen \div 600)
    IN  ((h * 100 + whole) % 2400) + (IF 2 * rest >= PhaseDen \div 600 THEN 1 ELSE 0)

\* C23: on every day rise = (6 + 24 * phase) mod 24 and set = (18 + 24 *
\* phase) mod 24, rounded to 2 decimals; a moon rises at 06.00 on its
\* reference new-moon day; set and rise differ by 12 hours modulo 24; the
\* rounded values stay in [0, 24), so that HH is in 00..23 and MM in 00..59.
C23_RiseSetTimes ==
    call = "getRiseSetTimes" =>
        LET moon  == TheMoon(moonSystem, arg.moon)
            phase == getPhase(moon, arg.day)
        IN  /\ ret.rise = HourOfPhase(6, phase)
            /\ ret.set = HourOfPhase(18, phase)
            /\ arg.day = moon.firstNewMoonDay => ret.rise = 600
            /\ (ret.set - ret.rise) % 2400 = 1200
            /\ ret.rise \in 0..2399
            /\ ret.set \in 0..2399
            /\ ret.riseFormatted.hh \in 0..23
            /\ ret.setFormatted.hh \in 0..23
            /\ ret.riseFormatted.mm \in 0..59
            /\ ret.setFormatted.mm \in 0..59

-----------------------------------------------------------------------------
(* Claims about what an eclipse record says of the moons *)

\* C24: a record of type GRAND has both illuminations at 100, and a record of
\* any type other than NONE has both illuminations at 97 or more.
C24_EclipseMeansBothFull ==
    call = "getEclipseInfo" =>
        /\ ret.type = "grand" =>
              (ret.ralIllumination = 100 /\ ret.guthayIllumination = 100)
        /\ ret.type # "none" =>
              (ret.ralIllumination >= 97 /\ ret.guthayIllumination >= 97)

\* C25: with the moons of AthasianMoonSystem (periods 33 and 125, references
\* 17 and 63), findNextEclipse(d) with the default minimum type PARTIAL returns
\* for every day d >= 0 a record whose type is not NONE on a day after d and
\* not after d + eclipseCycle; and since the search returns the first day with
\* an eclipse, every day d of a whole eclipse cycle has such a day in
\* (d, d + eclipseCycle].
C25_EclipseAlwaysFound ==
    (call = "findNextEclipse" /\ arg.minType = "partial" /\ arg.from >= 0) =>
        /\ ret # NullRecord
        /\ ret.type # "none"
        /\ ret.absoluteDay > arg.from
        /\ ret.absoluteDay <= arg.from + moonSystem.eclipseCycle
        /\ (arg.from = 0 /\ eclipseCache = EmptyCache) =>
              \E days \in {{ t \in 1..SearchSpan : SeverityOn(t) >= 1 }} :
                  \A d \in 0..(moonSystem.eclipseCycle - 1) :
                      \E t \in days : d < t /\ t <= d + moonSystem.eclipseCycle

\* the search from day 315 crosses the longest stretch without an eclipse
C25_Witness ==
    /\ call = "findNextEclipse"
    /\ arg.minType = "partial"
    /\ arg.from = 315
    /\ ret # NullRecord
    /\ ret.absoluteDay = 808
    /\ moonSystem.ral.firstNewMoonDay = 17
    /\ moonSystem.guthay.firstNewMoonDay = 63

-----------------------------------------------------------------------------
(* Claims about the date helpers *)

\* the total calendar day of an instant
TotalDayOf(cd, time) ==
    getTotalCalendarDay(cd, timeToComponents(cd, time).year,
                        getDayOfYear(cd, timeToComponents(cd, time)).value)

\* C26: from every current date and for every n in 1..375, setDayOfYear(n)
\* commits a world time in the same year whose day of the year is n, n = 375
\* and the month boundaries included; and setDateFromTotalDays of the absolute
\* day of a date, with its time of day, sets that very date.
C26_JumpToDayOfYear ==
    [][/\ call' = "setDayOfYear" =>
            /\ ~ret'.threw
            /\ timeToComponents(calendarData, worldTime').year
                   = timeToComponents(calendarData, worldTime).year
            /\ getDayOfYear(calendarData,
                            timeToComponents(calendarData, worldTime')).value
                   = arg.dayOfYear
       /\ call' = "setDateFromTotalDays" =>
            (~ret'.threw /\ worldTime' = worldTime)]_vars

\* C27: after advanceDays(n), n >= 1, the total calendar day of the current
\* date is n more than before and hour, minute and second are as before.
C27_AdvanceDaysMovesDays ==
    [][call' = "advanceDays" =>
          LET before == timeToComponents(calendarData, worldTime)
              after  == timeToComponents(calendarData, worldTime')
          IN  /\ TotalDayOf(calendarData, worldTime')
                    = TotalDayOf(calendarData, worldTime) + arg.n
              /\ after.hour = before.hour
              /\ after.minute = before.minute
              /\ after.second = before.second]_vars

-----------------------------------------------------------------------------
(* Claims about the eclipse cache *)

\* what a search returns: the record of the day found, or null
SearchResult(ms, cache, r) ==
    IF r.found.absent THEN NullRecord ELSE getEclipseInfo(ms, cache, r.found.day)

\* what the last call returns on a calculator whose cache is empty
FreshReturn ==
    IF call = "getEclipseInfo" THEN ComputeEclipseInfo(moonSystem, arg.day)
    ELSE IF call = "hasEclipse" THEN hasEclipse(moonSystem, EmptyCache, arg.day)
    ELSE IF call = "findNextEclipse"
    THEN SearchResult(moonSystem, EmptyCache,
                      findNextEclipse(moonSystem, EmptyCache, arg.from, arg.minType))
    ELSE IF call = "findPreviousEclipse"
    THEN SearchResult(moonSystem, EmptyCache,
                      findPreviousEclipse(moonSystem, EmptyCache, arg.from, arg.minType))
    ELSE ret

\* C28: over any interleaving of getEclipseInfo, findNextEclipse,
\* findPreviousEclipse, hasEclipse and clearCache calls on one calculator
\* whose moon system does not change, what a call returns is what a
\* calculator with an empty cache returns for the same arguments, and every
\* entry of eclipseCache with key t is the record computed for day t.
C28_CacheTransparent ==
    /\ ret = FreshReturn
    /\ \A t \in DOMAIN eclipseCache :
           eclipseCache[t] = ComputeEclipseInfo(moonSystem, t)

\* hasEclipse(182) has been answered from the entry that a backward search
\* from day 183 had stored for day 182 on its way to day 181
C28_Witness ==
    /\ call = "hasEclipse"
    /\ arg.day = 182
    /\ {181, 182} \subseteq DOMAIN eclipseCache
    /\ ret = hasEclipse(moonSystem, EmptyCache, 182)

-----------------------------------------------------------------------------
(* Claims about the day the moon engine is given *)

\* the total calendar day getCurrentMoonPhases computes at an instant
MoonEngineDay(cd, time) ==
    TheOnly({ getTotalCalendarDay(cd, c.year, getDayOfYear(cd, c).value) :
              c \in {timeToComponents(cd, time)} })

\* the reference new moons a moon configuration gives, with the day the moon
\* system has derived from each
DerivedReferences(ms, moonConfigs) ==
    IF moonConfigs = NullRecord THEN {}
    ELSE { p \in { <<moonConfigs.Ral.firstNewMoon, ms.ral.firstNewMoonDay>>,
                   <<moonConfigs.Guthay.firstNewMoon, ms.guthay.firstNewMoonDay>> } :
           p[1] # NullRecord }

\* C29: at every instant t >= 0 the total calendar day of the components of
\* t is floor(t / msPerDay) + 1, and the reference new-moon day the moon
\* system derives from {year, day} is the total calendar day of day `day' of
\* year `year' of the calendar.
C29_MoonDayIsCalendarDay ==
    /\ call = "timeToComponents" =>
          MoonEngineDay(calendarData, arg.time)
              = (arg.time \div (1000 * secondsPerDay(calendarData))) + 1
    /\ call = "newAthasianMoonSystem" =>
          \A p \in DerivedReferences(moonSystem, arg.moonConfigs) :
              p[2] = getTotalCalendarDay(calendarData, p[1].year, p[1].day)

-----------------------------------------------------------------------------
(* Claims about the chat-command hooks *)

\* C30: whatever the order and the number of firings of 'ready', the delayed
\* check and 'chatCommandsReady', and whether or not Chat Commander is there
\* when initialize() runs, at most one DarkSunChatCommands instance is
\* created and every command name is passed to register at most once.
C30_RegisteredAtMostOnce ==
    /\ chatHooks.instances <= 1
    /\ \A n \in CommandNames : chatHooks.registered[n] <= 1

Spec == SpecCalendar

====
